---- MODULE Spec2Model ----
(***************************************************************************)
(* OpenClaw Guardian: the dependency-update cycle of the serverless        *)
(* backend (src/api/index.py) and of the local-clone backend               *)
(* (src/openclaw-guardian/main.py with skills/pr_creator.py, driven by     *)
(* src/frontend/api.py).                                                   *)
(*                                                                         *)
(* Strings are sequences of one-character strings, so that the string      *)
(* operations of the source (lstrip, split, strip, int) are computed.      *)
(***************************************************************************)
EXTENDS Integers, Sequences, FiniteSets, TLC

\* ------------------------------------------------------------------------
\* Bounds of the model
\* ------------------------------------------------------------------------
\* Clock values 0..MaxTime; HTTP requests (config and run-once) served.
MaxTime == 1
MaxRequests == 3

\* Log lines appended between two resets of the session: enough to pass the
\* cap of 200 stored lines.
MaxLines == 202

\* The request handlers a threaded WSGI server may run at the same time.
Threads == {"r1", "r2"}

\* ------------------------------------------------------------------------
\* Python string helpers
\* ------------------------------------------------------------------------
Whitespace == {" "}
Digits == {"0", "1", "2", "3", "4", "5", "6", "7", "8", "9"}
PrefixChars == {"^", "~", ">", "=", "<"}

RECURSIVE LStrip(_, _)
LStrip(s, chars) ==
    IF s # <<>> /\ Head(s) \in chars THEN LStrip(Tail(s), chars) ELSE s

RECURSIVE RStrip(_, _)
RStrip(s, chars) ==
    IF s # <<>> /\ s[Len(s)] \in chars
    THEN RStrip(SubSeq(s, 1, Len(s) - 1), chars)
    ELSE s

Strip(s) == RStrip(LStrip(s, Whitespace), Whitespace)

RECURSIVE Split(_, _)
Split(s, sep) ==
    IF \E i \in 1..Len(s) : s[i] = sep
    THEN LET i == CHOOSE k \in 1..Len(s) :
                      s[k] = sep /\ \A j \in 1..(k - 1) : s[j] # sep
         IN  <<SubSeq(s, 1, i - 1)>> \o Split(SubSeq(s, i + 1, Len(s)), sep)
    ELSE <<s>>

DigitVal(c) ==
    CASE c = "0" -> 0 [] c = "1" -> 1 [] c = "2" -> 2 [] c = "3" -> 3
      [] c = "4" -> 4 [] c = "5" -> 5 [] c = "6" -> 6 [] c = "7" -> 7
      [] c = "8" -> 8 [] c = "9" -> 9 [] OTHER -> 0

RECURSIVE DigitsVal(_)
DigitsVal(s) ==
    IF s = <<>> THEN 0
    ELSE DigitsVal(SubSeq(s, 1, Len(s) - 1)) * 10 + DigitVal(s[Len(s)])

\* int(x): surrounding whitespace is ignored, one optional sign, then digits.
IntBody(x) ==
    LET t == Strip(x)
    IN  IF t # <<>> /\ Head(t) \in {"-", "+"} THEN Tail(t) ELSE t

IntOk(x) ==
    LET u == IntBody(x)
    IN  u # <<>> /\ \A i \in 1..Len(u) : u[i] \in Digits

IntOf(x) ==
    LET t == Strip(x)
    IN  IF t # <<>> /\ Head(t) = "-" THEN 0 - DigitsVal(IntBody(x))
        ELSE DigitsVal(IntBody(x))

\* tuple(int(p) for p in v.split('.')): defined when every piece parses.
TupleOk(v) ==
    LET ps == Split(v, ".") IN \A i \in 1..Len(ps) : IntOk(ps[i])

TupleOf(v) ==
    LET ps == Split(v, ".") IN [i \in 1..Len(ps) |-> IntOf(ps[i])]

\* Python's tuple comparison a > b.
TupleGT_Any(a, b) ==
    \E i \in 1..Len(a) : i > Len(b) \/ a[i] > b[i]

RECURSIVE TupleGT(_, _)
TupleGT(a, b) ==
    IF a = <<>> THEN FALSE
    ELSE IF b = <<>> THEN TRUE
    ELSE IF a[1] # b[1] THEN a[1] > b[1]
    ELSE TupleGT(Tail(a), Tail(b))

\* ------------------------------------------------------------------------
\* Ordered dictionaries: sequences of <<key, value>> with distinct keys
\* ------------------------------------------------------------------------
None == "None"

HasKey(d, k) == \E i \in 1..Len(d) : d[i][1] = k

Lookup(d, k) == d[CHOOSE i \in 1..Len(d) : d[i][1] = k][2]

DictSet(d, k, v) ==
    IF HasKey(d, k)
    THEN [i \in 1..Len(d) |-> IF d[i][1] = k THEN <<k, v>> ELSE d[i]]
    ELSE Append(d, <<k, v>>)

RECURSIVE DictUpdate(_, _)
DictUpdate(d, e) ==
    IF e = <<>> THEN d
    ELSE DictUpdate(DictSet(d, e[1][1], e[1][2]), Tail(e))

\* ------------------------------------------------------------------------
\* MemoryManager (skills/memory_manager.py) and the filter of the
\* DependencyChecker
\* ------------------------------------------------------------------------
\* No timestamp: None in last_checked, '' in an entry.
NoTimestamp == <<>>

\* {} as json.load returns it
EmptyDict == <<>>

\* dict.get(key, default)
DictGet(d, key, default) == IF HasKey(d, key) THEN Lookup(d, key) ELSE default

_create_empty_memory ==
    <<<<"repo_url", "">>, <<"last_checked", NoTimestamp>>,
      <<"last_updated", <<>>>>, <<"total_runs", 0>>,
      <<"successful_upgrades", 0>>>>

\* datetime.isoformat() of the instant t (seconds), as a string of one token
isoformat(t) == <<t>>

\* datetime.fromisoformat(timestamp_str).timestamp(); ValueError is -1
fromisoformat(timestamp_str) ==
    IF Len(timestamp_str) = 1 THEN timestamp_str[1] ELSE -1

SecondsPerDay == 24 * 60 * 60

\* load_memory: the file is missing, unreadable as JSON, or holds a dict.
load_memory(file) ==
    IF file.kind = "json" THEN file.data ELSE _create_empty_memory

\* update_last_check_time at the instant t
MemoryManager_update_last_check_time(memory, t) ==
    LET m1 == DictSet(memory, "last_checked", isoformat(t))
    IN  DictSet(m1, "total_runs", DictGet(m1, "total_runs", 0) + 1)

MemoryManager_record_upgrade_Replace(memory, branch_name, packages, pr_url, t) ==
    LET upgrade_entry == [branch |-> branch_name, packages |-> packages,
                          timestamp |-> isoformat(t), pr_url |-> pr_url]
        m1 == DictSet(memory, "last_updated", <<upgrade_entry>>)
    IN  DictSet(m1, "successful_upgrades",
                DictGet(m1, "successful_upgrades", 0) + 1)

\* record_upgrade at the instant t (the memory it leaves; save_memory follows)
MemoryManager_record_upgrade(memory, branch_name, packages, pr_url, t) ==
    LET upgrade_entry == [branch |-> branch_name, packages |-> packages,
                          timestamp |-> isoformat(t), pr_url |-> pr_url]
        last_updated  == Append(DictGet(memory, "last_updated", <<>>),
                                upgrade_entry)
        m1 == DictSet(memory, "last_updated", last_updated)
    IN  DictSet(m1, "successful_upgrades",
                DictGet(m1, "successful_upgrades", 0) + 1)

\* The entries the loops of has_been_upgraded, get_recently_upgraded_packages
\* do not skip: a timestamp that parses and is not before the cutoff.
EntryCounts(entry, days, t) ==
    LET cutoff_time == t - days * SecondsPerDay
    IN  /\ entry.timestamp # NoTimestamp
        /\ fromisoformat(entry.timestamp) # -1
        /\ ~ (fromisoformat(entry.timestamp) < cutoff_time)

EntryLists_Any(entry, package_name) == entry.packages # <<>>

\* package_name in packages
EntryLists(entry, package_name) ==
    \E i \in 1..Len(entry.packages) : entry.packages[i] = package_name

\* has_been_upgraded(package_name, days) at the instant t
has_been_upgraded(memory, package_name, days, t) ==
    LET last_updated == DictGet(memory, "last_updated", <<>>)
    IN  \E i \in 1..Len(last_updated) :
            /\ EntryCounts(last_updated[i], days, t)
            /\ EntryLists(last_updated[i], package_name)

\* get_recently_upgraded_packages(days) at the instant t: list(set), the
\* order of which is arbitrary
get_recently_upgraded_packages(memory, days, t) ==
    LET last_updated == DictGet(memory, "last_updated", <<>>)
    IN  UNION {{last_updated[i].packages[j] :
                    j \in 1..Len(last_updated[i].packages)} :
               i \in {k \in 1..Len(last_updated) :
                          EntryCounts(last_updated[k], days, t)}}

FilterDays == 7

\* DependencyChecker.filter_packages_to_upgrade(outdated_list, memory)
filter_packages_to_upgrade(outdated_list, memory, t) ==
    LET recently_upgraded ==
            get_recently_upgraded_packages(memory, FilterDays, t)
    IN  SelectSeq(outdated_list,
                  LAMBDA pkg : pkg.name \notin recently_upgraded)

\* get_stats at the instant t
get_stats(memory, t) ==
    [total_runs |-> DictGet(memory, "total_runs", 0),
     successful_upgrades |-> DictGet(memory, "successful_upgrades", 0),
     last_checked |-> DictGet(memory, "last_checked", NoTimestamp),
     recently_upgraded_count |->
         Cardinality(get_recently_upgraded_packages(memory, FilterDays, t))]

\* ------------------------------------------------------------------------
\* Version Differ and Manifest Mutator (src/api/index.py)
\* ------------------------------------------------------------------------
_parse_version(v) == Strip(Split(LStrip(v, PrefixChars), "-")[1])

\* A registry maps a name to [found, version]; a failed lookup (exception,
\* timeout, non-200) and a reply without 'version' both give None.
NoVersion == <<"None">>

_get_latest_version(reg, package_name) ==
    IF reg[package_name].found THEN reg[package_name].version ELSE NoVersion

RECURSIVE _check_outdated_Abort(_, _)
_check_outdated_Abort(deps, reg) ==
    IF deps = <<>> THEN <<>>
    ELSE LET name    == deps[1][1]
             current == _parse_version(deps[1][2])
             latest  == _get_latest_version(reg, name)
         IN  IF latest = NoVersion \/ latest = <<>> \/ latest = current
             THEN _check_outdated_Abort(Tail(deps), reg)
             ELSE IF ~TupleOk(current) \/ ~TupleOk(latest)
             THEN <<>>
             ELSE (IF TupleGT(TupleOf(latest), TupleOf(current))
                   THEN <<[name |-> name, current |-> current,
                           latest |-> latest]>>
                   ELSE <<>>) \o _check_outdated_Abort(Tail(deps), reg)

RECURSIVE _check_outdated(_, _)
_check_outdated(deps, reg) ==
    IF deps = <<>> THEN <<>>
    ELSE LET name    == deps[1][1]
             current == _parse_version(deps[1][2])
             latest  == _get_latest_version(reg, name)
             flagged == /\ latest # NoVersion
                        /\ latest # <<>>
                        /\ latest # current
                        /\ TupleOk(current)
                        /\ TupleOk(latest)
                        /\ TupleGT(TupleOf(latest), TupleOf(current))
         IN  (IF flagged
              THEN <<[name |-> name, current |-> current, latest |-> latest]>>
              ELSE <<>>) \o _check_outdated(Tail(deps), reg)

Sections ==
    <<"dependencies", "devDependencies", "peerDependencies",
      "optionalDependencies">>

RangePrefix_First(old_val) ==
    IF old_val # <<>> /\ old_val[1] \in PrefixChars
    THEN <<old_val[1]>> ELSE <<>>

RangePrefix(old_val) ==
    SubSeq(old_val, 1, Len(old_val) - Len(LStrip(old_val, PrefixChars)))

\* One pass of the inner loop over the sections, for one outdated item.
RECURSIVE BumpSections(_, _, _, _)
BumpSections(st, item, i, n) ==
    IF i > n THEN st
    ELSE LET sec == Sections[i]
         IN  IF HasKey(st.pkg[sec], item.name)
             THEN BumpSections(
                     [pkg |-> [st.pkg EXCEPT ![sec] =
                                  DictSet(@, item.name,
                                          RangePrefix(Lookup(@, item.name))
                                              \o item.latest)],
                      names |-> Append(st.names,
                                       [name |-> item.name,
                                        latest |-> item.latest])],
                     item, i + 1, n)
             ELSE BumpSections(st, item, i + 1, n)

RECURSIVE BumpAll(_, _)
BumpAll(st, outdated) ==
    IF outdated = <<>> THEN st
    ELSE BumpAll(BumpSections(st, outdated[1], 1, Len(Sections)),
                 Tail(outdated))

_update_package_json_content_KeepText(content, outdated) ==
    LET st == BumpAll([pkg |-> content.pkg, names |-> <<>>], outdated)
    IN  [content |-> [content EXCEPT !.pkg = st.pkg], names |-> st.names]

\* json.dumps(pkg, indent=2) + '\n' always produces the "indent2" layout.
_update_package_json_content(content, outdated) ==
    LET st == BumpAll([pkg |-> content.pkg, names |-> <<>>], outdated)
    IN  [content |-> [kind |-> "object", fmt |-> "indent2", pkg |-> st.pkg],
         names |-> st.names]

\* ------------------------------------------------------------------------
\* Inputs: URLs, tokens, manifests, registry
\* ------------------------------------------------------------------------
\* A URL is the list of its '/'-separated segments (url.split('/')).
UrlEmpty  == <<"">>
UrlGood   == <<"https:", "", "github.com", "o", "r">>
UrlGit    == <<"https:", "", "github.com", "o", "r.git">>
UrlRoot   == <<"https:", "", "github.com", "">>
UrlOther  == <<"http:", "", "example.org", "o", "r">>

Urls == {UrlEmpty, UrlGood, UrlRoot, UrlOther}
Tokens == {"", "tok"}
Intervals == {30, 3600}

RECURSIVE RStripSlash(_)
RStripSlash(u) ==
    IF Len(u) > 1 /\ u[Len(u)] = "" THEN RStripSlash(SubSeq(u, 1, Len(u) - 1))
    ELSE u

EndsWithGit(seg) == seg = "r.git"
DropGit(seg) == IF seg = "r.git" THEN "r" ELSE seg

StartsWithGithub_Any(u) == Len(u) >= 4

StartsWithGithub(u) ==
    Len(u) >= 4 /\ u[1] = "https:" /\ u[2] = "" /\ u[3] = "github.com"

\* (owner, repo) or (None, None)
_parse_github_url(url) ==
    LET u     == RStripSlash(url)
        parts == IF EndsWithGit(u[Len(u)])
                 THEN [u EXCEPT ![Len(u)] = DropGit(@)]
                 ELSE u
    IN  IF Len(parts) >= 2
        THEN <<parts[Len(parts) - 1], parts[Len(parts)]>>
        ELSE <<None, None>>

Falsy(x) == x = None \/ x = ""

V10 == <<"1", ".", "0">>
V20 == <<"2", ".", "0">>

NoSections ==
    [dependencies |-> <<>>, devDependencies |-> <<>>,
     peerDependencies |-> <<>>, optionalDependencies |-> <<>>]

PkgCurrent ==
    [NoSections EXCEPT !.dependencies = << <<"a", <<"^">> \o V20>> >>]

PkgOutdated ==
    [NoSections EXCEPT !.dependencies = << <<"a", <<"^">> \o V10>> >>,
                       !.devDependencies = << <<"b", <<"~">> \o V10>> >>]

Absent  == [kind |-> "absent",  fmt |-> "none", pkg |-> NoSections]
BadJson == [kind |-> "invalid", fmt |-> "none", pkg |-> NoSections]
NonDict == [kind |-> "nondict", fmt |-> "none", pkg |-> NoSections]
Obj(fmt, pkg) == [kind |-> "object", fmt |-> fmt, pkg |-> pkg]

Manifests ==
    {Absent, BadJson, NonDict, Obj("indent2", PkgCurrent),
     Obj("compact", PkgOutdated)}

\* npm registry: latest version by name, None when the lookup fails.
Found(v) == [found |-> TRUE, version |-> v]
NotFound == [found |-> FALSE, version |-> <<>>]

Registries == {[a |-> Found(V20), b |-> NotFound]}

\* ------------------------------------------------------------------------
\* State of the serverless backend (src/api/index.py) and of its remotes
\* ------------------------------------------------------------------------
VARIABLES
    _config,    \* module-level _config
    _session,   \* module-level _session: cycles, prs, packages, history
    _logs,      \* module-level _logs
    pc,         \* per request handler: where run_once / _run_cycle stands
    loc,        \* per request handler: the locals of _run_cycle
    result,     \* per request handler: what _run_cycle returned
    resp,       \* per request handler: the JSON body run_once answered
    calls,      \* per request handler: the GitHub calls of its cycle
    cfgResp,    \* the JSON body of the last save_config
    remote,     \* the hosted repository: manifest, branches, pull requests
    registry,   \* the npm registry
    now,        \* wall clock, in seconds
    requests,   \* HTTP requests (config, run-once) served so far
    backend,    \* which backend is deployed: api/index.py or frontend/api.py
    clone,      \* local-clone backend: the working copy under repos/
    fn,         \* Version Differ / Manifest Mutator applied to chosen inputs
    poll        \* a client of GET /api/logs and what it has received

serverVars ==
    <<_config, _session, _logs, pc, loc, result, resp, calls, cfgResp,
      remote, registry, now, requests, backend, clone>>

vars ==
    <<_config, _session, _logs, pc, loc, result, resp, calls, cfgResp,
      remote, registry, now, requests, backend, clone, fn, poll>>

MaxLogs == 200

Log(message, level) == [message |-> message, level |-> level]

\* The model keeps the lines that report an outcome (warning, error,
\* success); the progress lines of level 'info' are passed to _add_log by the
\* actions but not stored.
Reported(entry) == entry.level # "info"

\* _logs.append(line), then _logs.pop(0) once there are more than 200.
AppendLine(logs, entry) ==
    LET l == Append(logs, entry)
    IN  IF Len(l) > MaxLogs THEN Tail(l) ELSE l

RECURSIVE _add_log(_, _)
_add_log(logs, entries) ==
    IF entries = <<>> THEN logs
    ELSE IF ~Reported(entries[1]) THEN _add_log(logs, Tail(entries))
    ELSE _add_log(AppendLine(logs, entries[1]), Tail(entries))

EmptySession == [cycles |-> 0, prs |-> 0, packages |-> 0, history |-> <<>>]

\* history0 is not a local of the code: it remembers the history the request
\* found when it arrived.
NoLoc ==
    [base |-> Absent, pkg_content |-> Absent, outdated |-> <<>>,
     new_content |-> Absent, upgraded_names |-> <<>>, branch_name |-> 0,
     pr_url |-> <<>>, history0 |-> <<>>, default_branch |-> "none",
     memory |-> _create_empty_memory]

NoResult == <<>>
Result(success, upgraded, pr_url) == <<success, upgraded, pr_url>>
Failure == Result(FALSE, <<>>, <<>>)

NoResp == [success |-> FALSE, message |-> "none", stats |-> <<>>,
           history |-> <<>>]

Call(api, status) == [api |-> api, status |-> status]

NoClone == [exists |-> FALSE, branches |-> {}]

\* No input chosen for the Differ/Mutator, no log client.
NoFn == [stage |-> "none"]
NoPoll == [offset |-> 0, received |-> <<>>, fresh |-> FALSE, appended |-> 0]

\* The state of a started server, for a repository whose default branch has
\* one of the given names; a branch named main exists when it is the default
\* branch, and may exist beside another default branch.
ServerInitFor(defaults, manifests) ==
    /\ _config = [repo_url |-> UrlEmpty, token |-> "", check_interval |-> 3600]
    /\ _session = EmptySession
    /\ _logs = <<>>
    /\ pc = [t \in Threads |-> "idle"]
    /\ loc = [t \in Threads |-> NoLoc]
    /\ result = [t \in Threads |-> NoResult]
    /\ resp = [t \in Threads |-> NoResp]
    /\ calls = [t \in Threads |-> <<>>]
    /\ cfgResp = [success |-> FALSE, message |-> "none"]
    /\ remote \in {r \in [manifest : manifests, branches : {{}},
                          prs : {<<>>}, answers : {TRUE},
                          default_branch : defaults, has_main : BOOLEAN] :
                        r.default_branch = "main" => r.has_main}
    /\ registry \in Registries
    /\ now = 0
    /\ requests = 0
    /\ backend \in {"serverless", "local"}
    /\ clone = NoClone

ServerInit == ServerInitFor({"main"}, Manifests)

Init ==
    /\ ServerInit
    /\ fn = NoFn
    /\ poll = NoPoll

\* ------------------------------------------------------------------------
\* The hosted repository as the GitHub REST API shows it
\* ------------------------------------------------------------------------
BranchExists(r, name) == \E b \in r.branches : b.name = name

BranchContent(r, name) == (CHOOSE b \in r.branches : b.name = name).content

OpenPRs(r, head) == {i \in 1..Len(r.prs) : r.prs[i].head = head /\ r.prs[i].open}

Min(S) == CHOOSE x \in S : \A y \in S : x <= y

PrUrl(i) == <<i>>

\* ------------------------------------------------------------------------
\* POST /api/config
\* ------------------------------------------------------------------------
Reject(message) ==
    /\ cfgResp' = [success |-> FALSE, message |-> message]
    /\ UNCHANGED <<_config, _session, _logs>>

save_config(new_url, new_token, interval) ==
    /\ backend = "serverless"
    /\ requests < MaxRequests
    /\ requests' = requests + 1
    /\ IF new_url = UrlEmpty THEN Reject("url_required")
       ELSE IF new_token = "" THEN Reject("token_required")
       ELSE IF ~StartsWithGithub(new_url) THEN Reject("invalid_url")
       ELSE IF interval < 60 THEN Reject("interval_too_low")
       ELSE /\ _config' = [repo_url |-> new_url, token |-> new_token,
                           check_interval |-> interval]
            /\ _session' = EmptySession
            /\ _logs' = _add_log(<<>>, <<Log("config_saved", "success")>>)
            /\ cfgResp' = [success |-> TRUE, message |-> "ok"]
    /\ UNCHANGED <<pc, loc, result, resp, calls, remote, registry, backend,
                   clone, now>>
    /\ UNCHANGED <<fn, poll>>

\* ------------------------------------------------------------------------
\* POST /api/run-once: run_once and the stages of _run_cycle
\* ------------------------------------------------------------------------
\* A request is served by the first handler thread that is free.
FirstFree(t) == t = "r1" \/ pc["r1"] # "idle"

\* _run_cycle returns: its result is kept and run_once goes on after the call.
Return(t, res, entries) ==
    /\ result' = [result EXCEPT ![t] = res]
    /\ _logs' = _add_log(_logs, entries)
    /\ pc' = [pc EXCEPT ![t] = "finish"]

\* An exception leaves _run_cycle and reaches the except clause of run_once.
Raise(t) ==
    /\ pc' = [pc EXCEPT ![t] = "raised"]
    /\ UNCHANGED <<result, _logs>>

\* Variant: a run keeps the history of the runs before it.
Begin_KeepHistory(t) ==
    /\ backend = "serverless"
    /\ pc[t] = "idle"
    /\ FirstFree(t)
    /\ requests < MaxRequests
    /\ requests' = requests + 1
    /\ UNCHANGED calls
    /\ IF _config.repo_url = UrlEmpty \/ _config.token = ""
       THEN /\ resp' = [resp EXCEPT ![t] =
                   [NoResp EXCEPT !.message = "not_configured"]]
            /\ UNCHANGED <<_session, _logs, pc, loc, result>>
       ELSE /\ _session' = [EmptySession EXCEPT
                           !.history = _session.history]
            /\ loc' = [loc EXCEPT ![t].history0 = _session.history]
            /\ resp' = [resp EXCEPT ![t] = NoResp]
            /\ LET parsed == _parse_github_url(_config.repo_url)
                   start  == <<Log("starting", "info")>>
               IN  IF Falsy(parsed[1]) \/ Falsy(parsed[2])
                   THEN /\ result' = [result EXCEPT ![t] = Failure]
                        /\ _logs' = _add_log(<<>>,
                               Append(start, Log("cannot_parse_url", "error")))
                        /\ pc' = [pc EXCEPT ![t] = "finish"]
                   ELSE /\ result' = [result EXCEPT ![t] = NoResult]
                        /\ _logs' = _add_log(<<>>,
                               Append(start, Log("connecting", "info")))
                        /\ pc' = [pc EXCEPT ![t] = "repo_info"]
    /\ UNCHANGED <<_config, cfgResp, remote, registry, backend, clone, now>>
    /\ UNCHANGED <<fn, poll>>

Begin(t) ==
    /\ backend = "serverless"
    /\ pc[t] = "idle"
    /\ FirstFree(t)
    /\ requests < MaxRequests
    /\ requests' = requests + 1
    /\ UNCHANGED calls
    /\ IF _config.repo_url = UrlEmpty \/ _config.token = ""
       THEN /\ resp' = [resp EXCEPT ![t] =
                   [NoResp EXCEPT !.message = "not_configured"]]
            /\ UNCHANGED <<_session, _logs, pc, loc, result>>
       ELSE /\ _session' = EmptySession
            /\ loc' = [loc EXCEPT ![t].history0 = _session.history]
            /\ resp' = [resp EXCEPT ![t] = NoResp]
            /\ LET parsed == _parse_github_url(_config.repo_url)
                   start  == <<Log("starting", "info")>>
               IN  IF Falsy(parsed[1]) \/ Falsy(parsed[2])
                   THEN /\ result' = [result EXCEPT ![t] = Failure]
                        /\ _logs' = _add_log(<<>>,
                               Append(start, Log("cannot_parse_url", "error")))
                        /\ pc' = [pc EXCEPT ![t] = "finish"]
                   ELSE /\ result' = [result EXCEPT ![t] = NoResult]
                        /\ _logs' = _add_log(<<>>,
                               Append(start, Log("connecting", "info")))
                        /\ pc' = [pc EXCEPT ![t] = "repo_info"]
    /\ UNCHANGED <<_config, cfgResp, remote, registry, backend, clone, now>>
    /\ UNCHANGED <<fn, poll>>

GetRepoInfo(t) ==
    /\ pc[t] = "repo_info"
    /\ \E ok \in BOOLEAN :
          IF ok
          THEN /\ calls' = [calls EXCEPT ![t] = Append(@, Call("repo", 200))]
               /\ loc' = [loc EXCEPT
                             ![t].default_branch = remote.default_branch]
               /\ pc' = [pc EXCEPT ![t] = "ref"]
               /\ UNCHANGED <<result, _logs>>
          ELSE /\ calls' = [calls EXCEPT ![t] = Append(@, Call("repo", 0))]
               /\ Return(t, Failure, <<Log("github_unreachable", "error")>>)
               /\ UNCHANGED loc
    /\ UNCHANGED <<_config, _session, resp, cfgResp, remote, registry,
                   backend, clone, now, requests>>
    /\ UNCHANGED <<fn, poll>>

GetRef(t) ==
    /\ pc[t] = "ref"
    /\ \E ok \in BOOLEAN :
          IF ok
          THEN /\ calls' = [calls EXCEPT ![t] = Append(@, Call("ref", 200))]
               /\ loc' = [loc EXCEPT ![t].base = remote.manifest]
               /\ _logs' = _add_log(_logs, <<Log("fetching", "info")>>)
               /\ pc' = [pc EXCEPT ![t] = "manifest"]
               /\ UNCHANGED result
          ELSE /\ calls' = [calls EXCEPT ![t] = Append(@, Call("ref", 0))]
               /\ Raise(t)
               /\ UNCHANGED loc
    /\ UNCHANGED <<_config, _session, resp, cfgResp, remote, registry, backend,
                   clone, now, requests>>
    /\ UNCHANGED <<fn, poll>>

\* all_deps of _run_cycle: dependencies, then devDependencies over them.
AllDeps(pkg) ==
    DictUpdate(DictUpdate(<<>>, pkg.dependencies), pkg.devDependencies)

RECURSIVE FoundLogs(_)
FoundLogs(outdated) ==
    IF outdated = <<>> THEN <<>>
    ELSE <<Log(<<"outdated", outdated[1].name>>, "info")>>
             \o FoundLogs(Tail(outdated))

\* Variant: a missing manifest ends the cycle as a successful no-op.
NoManifest_Noop(t) ==
    /\ calls' = [calls EXCEPT ![t] = Append(@, Call("contents", 404))]
    /\ Return(t, Result(TRUE, <<>>, <<>>),
              <<Log("no_package_json", "warning")>>)
    /\ UNCHANGED loc

\* _get_file_content answered 404: "No package.json found in repository".
NoManifest(t) ==
    /\ calls' = [calls EXCEPT ![t] = Append(@, Call("contents", 404))]
    /\ Return(t, Failure, <<Log("no_package_json", "warning")>>)
    /\ UNCHANGED loc

\* Variant: nothing outdated is returned the way run_cycle of main.py does.
NoOutdated_Failure(t) ==
    /\ Return(t, Failure,
              <<Log("checking", "info"), Log("up_to_date", "success")>>)
    /\ loc' = [loc EXCEPT ![t].pkg_content = remote.manifest]

\* _check_outdated found nothing: "All packages are up to date".
NoOutdated(t) ==
    /\ Return(t, Result(TRUE, <<>>, <<>>),
              <<Log("checking", "info"), Log("up_to_date", "success")>>)
    /\ loc' = [loc EXCEPT ![t].pkg_content = remote.manifest]

\* GET contents/package.json, json.loads, the diff, the mutation and the
\* choice of the branch name.
GetManifest(t) ==
    /\ pc[t] = "manifest"
    /\ \E ok \in BOOLEAN :
          LET m == remote.manifest IN
          IF ~ok
          THEN /\ calls' = [calls EXCEPT ![t] = Append(@, Call("contents", 0))]
               /\ Raise(t)
               /\ UNCHANGED loc
          ELSE IF m.kind = "absent"
          THEN NoManifest(t)
          ELSE IF m.kind = "invalid"
          THEN /\ calls' = [calls EXCEPT ![t] = Append(@, Call("contents", 200))]
               /\ Return(t, Failure, <<Log("invalid_json", "error")>>)
               /\ loc' = [loc EXCEPT ![t].pkg_content = m]
          ELSE IF m.kind = "nondict"
          THEN /\ calls' = [calls EXCEPT ![t] = Append(@, Call("contents", 200))]
               /\ Raise(t)
               /\ loc' = [loc EXCEPT ![t].pkg_content = m]
          ELSE LET outdated == _check_outdated(AllDeps(m.pkg), registry)
                   upd      == _update_package_json_content(m, outdated)
               IN  /\ calls' = [calls EXCEPT ![t] =
                                   Append(@, Call("contents", 200))]
                   /\ IF outdated = <<>>
                      THEN NoOutdated(t)
                      ELSE /\ loc' = [loc EXCEPT
                                  ![t].pkg_content = m,
                                  ![t].outdated = outdated,
                                  ![t].new_content = upd.content,
                                  ![t].upgraded_names = upd.names,
                                  ![t].branch_name = now]
                           /\ _logs' = _add_log(_logs,
                                  <<Log("checking", "info"),
                                    Log("found_outdated", "info")>>
                                  \o FoundLogs(outdated)
                                  \o <<Log("creating_branch", "info")>>)
                           /\ pc' = [pc EXCEPT ![t] = "create_branch"]
                           /\ UNCHANGED result
    /\ UNCHANGED <<_config, _session, resp, cfgResp, remote, registry, backend,
                   clone, now, requests>>
    /\ UNCHANGED <<fn, poll>>

\* Variant: a failed branch creation is logged and the cycle goes on.
_create_branch_Ungated(t) ==
    /\ pc[t] = "create_branch"
    /\ \E ok \in BOOLEAN :
          LET name == loc[t].branch_name IN
          /\ IF ~ok
             THEN /\ calls' = [calls EXCEPT ![t] = Append(@, Call("branch", 0))]
                  /\ UNCHANGED remote
             ELSE IF BranchExists(remote, name)
             THEN /\ calls' = [calls EXCEPT ![t] =
                                  Append(@, Call("branch", 422))]
                  /\ UNCHANGED remote
             ELSE /\ calls' = [calls EXCEPT ![t] =
                                  Append(@, Call("branch", 201))]
                  /\ remote' = [remote EXCEPT !.branches =
                         @ \cup {[name |-> name, content |-> loc[t].base]}]
          /\ _logs' = _add_log(_logs, <<Log("committing", "info")>>)
          /\ pc' = [pc EXCEPT ![t] = "commit"]
          /\ UNCHANGED result
    /\ UNCHANGED <<_config, _session, loc, resp, cfgResp, registry, backend,
                   clone, now, requests>>
    /\ UNCHANGED <<fn, poll>>

\* POST git/refs: 201 creates the branch at base_sha, 422 says it exists.
_create_branch(t) ==
    /\ pc[t] = "create_branch"
    /\ \E ok \in BOOLEAN :
          LET name == loc[t].branch_name IN
          IF ~ok
          THEN /\ calls' = [calls EXCEPT ![t] = Append(@, Call("branch", 0))]
               /\ Return(t, Failure, <<Log("branch_failed", "error")>>)
               /\ UNCHANGED remote
          ELSE /\ IF BranchExists(remote, name)
                  THEN /\ calls' = [calls EXCEPT ![t] =
                                       Append(@, Call("branch", 422))]
                       /\ UNCHANGED remote
                  ELSE /\ calls' = [calls EXCEPT ![t] =
                                       Append(@, Call("branch", 201))]
                       /\ remote' = [remote EXCEPT !.branches =
                              @ \cup {[name |-> name, content |-> loc[t].base]}]
               /\ _logs' = _add_log(_logs, <<Log("committing", "info")>>)
               /\ pc' = [pc EXCEPT ![t] = "commit"]
               /\ UNCHANGED result
    /\ UNCHANGED <<_config, _session, loc, resp, cfgResp, registry, backend,
                   clone, now, requests>>
    /\ UNCHANGED <<fn, poll>>

\* Variant: the new manifest is committed to the default branch as well.
_commit_file_OnDefault(t) ==
    /\ pc[t] = "commit"
    /\ \E ok \in BOOLEAN :
          LET name == loc[t].branch_name IN
          IF ok /\ BranchExists(remote, name)
                /\ BranchContent(remote, name) = loc[t].pkg_content
          THEN /\ calls' = [calls EXCEPT ![t] = Append(@, Call("commit", 200))]
               /\ remote' = [remote EXCEPT
                      !.manifest = loc[t].new_content,
                      !.branches =
                          {IF b.name = name
                           THEN [b EXCEPT !.content = loc[t].new_content]
                           ELSE b : b \in @}]
               /\ _logs' = _add_log(_logs, <<Log("opening_pr", "info")>>)
               /\ pc' = [pc EXCEPT ![t] = "open_pr"]
               /\ UNCHANGED result
          ELSE /\ calls' = [calls EXCEPT ![t] =
                               Append(@, Call("commit", IF ok THEN 409 ELSE 0))]
               /\ Return(t, Failure, <<Log("commit_failed", "error")>>)
               /\ UNCHANGED remote
    /\ UNCHANGED <<_config, _session, loc, resp, cfgResp, registry, backend,
                   clone, now, requests>>
    /\ UNCHANGED <<fn, poll>>

\* PUT contents/package.json on the branch: the API accepts the new content
\* only if 'sha' names the file the branch holds (409 otherwise).
_commit_file(t) ==
    /\ pc[t] = "commit"
    /\ \E ok \in BOOLEAN :
          LET name == loc[t].branch_name IN
          IF ok /\ BranchExists(remote, name)
                /\ BranchContent(remote, name) = loc[t].pkg_content
          THEN /\ calls' = [calls EXCEPT ![t] = Append(@, Call("commit", 200))]
               /\ remote' = [remote EXCEPT !.branches =
                      {IF b.name = name
                       THEN [b EXCEPT !.content = loc[t].new_content]
                       ELSE b : b \in @}]
               /\ _logs' = _add_log(_logs, <<Log("opening_pr", "info")>>)
               /\ pc' = [pc EXCEPT ![t] = "open_pr"]
               /\ UNCHANGED result
          ELSE /\ calls' = [calls EXCEPT ![t] =
                               Append(@, Call("commit", IF ok THEN 409 ELSE 0))]
               /\ Return(t, Failure, <<Log("commit_failed", "error")>>)
               /\ UNCHANGED remote
    /\ UNCHANGED <<_config, _session, loc, resp, cfgResp, registry, backend,
                   clone, now, requests>>
    /\ UNCHANGED <<fn, poll>>

\* Variant: without a pull request URL the cycle is reported as failed.
ReturnPr_Failure(t, pr_url, entries) ==
    /\ loc' = [loc EXCEPT ![t].pr_url = pr_url]
    /\ IF pr_url # <<>>
       THEN Return(t, Result(TRUE, loc[t].upgraded_names, pr_url),
                   entries \o <<Log("pr_created", "success")>>)
       ELSE Return(t, Failure,
                   entries \o <<Log("no_pr_url_commit_pushed", "warning")>>)

\* The end of _run_cycle, once pr_url is known.
ReturnPr(t, pr_url, entries) ==
    /\ loc' = [loc EXCEPT ![t].pr_url = pr_url]
    /\ Return(t, Result(TRUE, loc[t].upgraded_names, pr_url),
              entries \o
              (IF pr_url # <<>>
               THEN <<Log("pr_created", "success")>>
               ELSE <<Log("no_pr_url_commit_pushed", "warning")>>))

PrFailed == <<Log("pr_failed_branch_committed", "warning")>>

\* POST pulls
_open_pr(t) ==
    /\ pc[t] = "open_pr"
    /\ \E ok \in BOOLEAN :
          LET head == loc[t].branch_name IN
          IF ~ok
          THEN /\ calls' = [calls EXCEPT ![t] = Append(@, Call("pr", 0))]
               /\ ReturnPr(t, <<>>, PrFailed)
               /\ UNCHANGED remote
          ELSE IF OpenPRs(remote, head) # {}
          THEN /\ calls' = [calls EXCEPT ![t] = Append(@, Call("pr", 422))]
               /\ pc' = [pc EXCEPT ![t] = "list_prs"]
               /\ UNCHANGED <<remote, loc, result, _logs>>
          ELSE /\ calls' = [calls EXCEPT ![t] = Append(@, Call("pr", 201))]
               /\ remote' = [remote EXCEPT !.prs =
                                Append(@, [head |-> head, open |-> TRUE,
                                           base |-> loc[t].default_branch])]
               /\ ReturnPr(t, PrUrl(Len(remote.prs) + 1), <<>>)
    /\ UNCHANGED <<_config, _session, resp, cfgResp, registry, backend, clone,
                   now, requests>>
    /\ UNCHANGED <<fn, poll>>

\* GET pulls?head=owner:branch&state=open, after the 422 of _open_pr
ListPRs(t) ==
    /\ pc[t] = "list_prs"
    /\ \E outcome \in {"ok", "status", "exception"} :
          LET found == OpenPRs(remote, loc[t].branch_name) IN
          /\ calls' = [calls EXCEPT ![t] =
                Append(@, Call("list_prs", IF outcome = "ok" THEN 200 ELSE 0))]
          /\ IF outcome = "exception" THEN ReturnPr(t, <<>>, PrFailed)
             ELSE IF outcome = "ok" /\ found # {}
             THEN ReturnPr(t, PrUrl(Min(found)), <<>>)
             ELSE ReturnPr(t, <<>>, <<>>)
    /\ UNCHANGED <<_config, _session, resp, cfgResp, remote, registry, backend,
                   clone, now, requests>>
    /\ UNCHANGED <<fn, poll>>

\* Variant: the answer's 'success' repeats the success of the cycle.
Finish_Truthful(t) ==
    /\ pc[t] = "finish"
    /\ LET success  == result[t][1]
           upgraded == result[t][2]
           pr_url   == result[t][3]
           session  ==
               IF success /\ upgraded # <<>>
               THEN [cycles   |-> _session.cycles + 1,
                     prs      |-> _session.prs + (IF pr_url # <<>> THEN 1 ELSE 0),
                     packages |-> _session.packages + Len(upgraded),
                     history  |-> Append(_session.history,
                                     [timestamp |-> now, packages |-> upgraded,
                                      pr_url |-> pr_url])]
               ELSE _session
       IN  /\ _session' = session
           /\ _logs' = _add_log(_logs,
                  IF success /\ upgraded # <<>>
                  THEN <<Log("done_upgraded", "success")>>
                  ELSE <<Log("done_no_changes", "info")>>)
           /\ resp' = [resp EXCEPT ![t] =
                  [success |-> success, message |-> "ok",
                   stats |-> <<session.cycles, session.prs, session.packages>>,
                   history |-> session.history]]
    /\ pc' = [pc EXCEPT ![t] = "idle"]
    /\ loc' = [loc EXCEPT ![t] = NoLoc]
    /\ result' = [result EXCEPT ![t] = NoResult]
    /\ calls' = [calls EXCEPT ![t] = <<>>]
    /\ UNCHANGED <<_config, cfgResp, remote, registry, backend, clone, now,
                   requests>>
    /\ UNCHANGED <<fn, poll>>

\* run_once after _run_cycle returned: counters, history, the answer. The
\* locals of the handler end with the answer.
Finish(t) ==
    /\ pc[t] = "finish"
    /\ LET success  == result[t][1]
           upgraded == result[t][2]
           pr_url   == result[t][3]
           session  ==
               IF success /\ upgraded # <<>>
               THEN [cycles   |-> _session.cycles + 1,
                     prs      |-> _session.prs + (IF pr_url # <<>> THEN 1 ELSE 0),
                     packages |-> _session.packages + Len(upgraded),
                     history  |-> Append(_session.history,
                                     [timestamp |-> now, packages |-> upgraded,
                                      pr_url |-> pr_url])]
               ELSE _session
       IN  /\ _session' = session
           /\ _logs' = _add_log(_logs,
                  IF success /\ upgraded # <<>>
                  THEN <<Log("done_upgraded", "success")>>
                  ELSE <<Log("done_no_changes", "info")>>)
           /\ resp' = [resp EXCEPT ![t] =
                  [success |-> TRUE, message |-> "ok",
                   stats |-> <<session.cycles, session.prs, session.packages>>,
                   history |-> session.history]]
    /\ pc' = [pc EXCEPT ![t] = "idle"]
    /\ loc' = [loc EXCEPT ![t] = NoLoc]
    /\ result' = [result EXCEPT ![t] = NoResult]
    /\ calls' = [calls EXCEPT ![t] = <<>>]
    /\ UNCHANGED <<_config, cfgResp, remote, registry, backend, clone, now,
                   requests>>
    /\ UNCHANGED <<fn, poll>>

\* run_once's except clause
HandleException(t) ==
    /\ pc[t] = "raised"
    /\ _logs' = _add_log(_logs, <<Log("unexpected_error", "error")>>)
    /\ resp' = [resp EXCEPT ![t] = [NoResp EXCEPT !.message = "exception"]]
    /\ pc' = [pc EXCEPT ![t] = "idle"]
    /\ loc' = [loc EXCEPT ![t] = NoLoc]
    /\ result' = [result EXCEPT ![t] = NoResult]
    /\ calls' = [calls EXCEPT ![t] = <<>>]
    /\ UNCHANGED <<_config, _session, cfgResp, remote, registry, backend,
                   clone, now, requests>>
    /\ UNCHANGED <<fn, poll>>

\* ------------------------------------------------------------------------
\* Local-clone backend: src/frontend/api.py drives OpenClawGuardian.run_cycle
\* (src/openclaw-guardian/main.py) with the skills of skills/*.py
\* ------------------------------------------------------------------------
fe_save_config(new_url, new_token, interval) ==
    /\ backend = "local"
    /\ requests < MaxRequests
    /\ requests' = requests + 1
    /\ IF new_url = UrlEmpty
       THEN Reject("url_required") /\ UNCHANGED clone
       ELSE IF new_token = ""
       THEN Reject("token_required") /\ UNCHANGED clone
       ELSE IF ~StartsWithGithub(new_url)
       THEN Reject("invalid_url") /\ UNCHANGED clone
       ELSE IF interval < 60
       THEN Reject("interval_too_low") /\ UNCHANGED clone
       ELSE /\ _config' = [repo_url |-> new_url, token |-> new_token,
                           check_interval |-> interval]
            /\ _session' = EmptySession
            /\ clone' = NoClone
            /\ cfgResp' = [success |-> TRUE, message |-> "ok"]
            /\ UNCHANGED _logs
    /\ UNCHANGED <<pc, loc, result, resp, calls, remote, registry, backend,
                   now>>
    /\ UNCHANGED <<fn, poll>>

\* GET /: index, "full wipe on every page load" (_wipe_everything): the
\* clones, the credentials of the configuration and the session.
fe_index ==
    /\ backend = "local"
    /\ requests < MaxRequests
    /\ requests' = requests + 1
    /\ _config' = [_config EXCEPT !.repo_url = UrlEmpty, !.token = ""]
    /\ _session' = EmptySession
    /\ clone' = NoClone
    /\ UNCHANGED <<_logs, pc, loc, result, resp, calls, cfgResp, remote,
                   registry, backend, now>>
    /\ UNCHANGED <<fn, poll>>

_validate_config ==
    /\ _config.repo_url # UrlEmpty
    /\ _config.token # ""
    /\ StartsWithGithub(_config.repo_url)

\* run_once up to the start of agent.run_cycle(): validation, the wipe of the
\* clones and of the session, the worker thread.
fe_run_once(t) ==
    /\ backend = "local"
    /\ pc[t] = "idle"
    /\ FirstFree(t)
    /\ requests < MaxRequests
    /\ requests' = requests + 1
    /\ UNCHANGED <<calls, result>>
    /\ IF ~_validate_config
       THEN /\ resp' = [resp EXCEPT ![t] =
                   [NoResp EXCEPT !.message = "not_configured"]]
            /\ UNCHANGED <<_session, clone, pc, loc>>
       ELSE /\ _session' = EmptySession
            /\ loc' = [loc EXCEPT ![t].history0 = _session.history]
            /\ clone' = NoClone
            /\ resp' = [resp EXCEPT ![t] = NoResp]
            /\ pc' = [pc EXCEPT ![t] = "l_clone"]
    /\ UNCHANGED <<_config, _logs, cfgResp, remote, registry, backend, now>>
    /\ UNCHANGED <<fn, poll>>

\* A return of run_cycle: every one of them calls _cleanup_repo first.
Exit_KeepClone(t, res) ==
    /\ UNCHANGED clone
    /\ result' = [result EXCEPT ![t] = res]
    /\ pc' = [pc EXCEPT ![t] = "l_finish"]

Exit(t, res) ==
    /\ clone' = NoClone
    /\ result' = [result EXCEPT ![t] = res]
    /\ pc' = [pc EXCEPT ![t] = "l_finish"]

\* Step 1: the old clone is removed, the repository is cloned afresh.
clone_repo(t) ==
    /\ pc[t] = "l_clone"
    /\ \E ok \in BOOLEAN :
          IF ok /\ remote.answers
          THEN /\ calls' = [calls EXCEPT ![t] = Append(@, Call("clone", 200))]
               /\ clone' = [exists |-> TRUE, branches |-> {}]
               /\ loc' = [loc EXCEPT ![t].pkg_content = remote.manifest]
               /\ pc' = [pc EXCEPT ![t] = "l_check"]
               /\ UNCHANGED result
          ELSE /\ calls' = [calls EXCEPT ![t] = Append(@, Call("clone", 0))]
               /\ Exit(t, Failure)
               /\ UNCHANGED loc
    /\ UNCHANGED <<_config, _session, _logs, resp, cfgResp, remote, registry,
                   backend, now, requests>>
    /\ UNCHANGED <<fn, poll>>

\* generate_branch_name: the prefix and int(time.time()); the name is
\* modelled by its timestamp.
generate_branch_name == now

RECURSIVE Upgraded(_)
Upgraded(outdated) ==
    IF outdated = <<>> THEN <<>>
    ELSE <<[name |-> outdated[1].name, old |-> outdated[1].current,
            new |-> outdated[1].latest]>> \o Upgraded(Tail(outdated))

RECURSIVE Names(_)
Names(pkgs) ==
    IF pkgs = <<>> THEN <<>> ELSE <<pkgs[1].name>> \o Names(Tail(pkgs))

\* Step 2: has_package_json, then 'npm outdated' (an empty list when npm
\* fails or reports nothing).
check_outdated(t) ==
    /\ pc[t] = "l_check"
    /\ \E ok \in BOOLEAN :
          LET m        == loc[t].pkg_content
              outdated == IF ok /\ m.kind = "object"
                          THEN _check_outdated(AllDeps(m.pkg), registry)
                          ELSE <<>>
          IN  IF ~clone.exists \/ m.kind = "absent" \/ outdated = <<>>
              THEN Exit(t, Failure) /\ UNCHANGED loc
              ELSE /\ loc' = [loc EXCEPT ![t].outdated = outdated]
                   /\ pc' = [pc EXCEPT ![t] = "l_upgrade"]
                   /\ UNCHANGED <<clone, result>>
    /\ UNCHANGED <<_config, _session, _logs, resp, calls, cfgResp, remote,
                   registry, backend, now, requests>>
    /\ UNCHANGED <<fn, poll>>

\* What 'npm update' leaves in package.json.
NpmUpgraded == Obj("indent2", PkgCurrent)

\* Step 3: upgrade_dependencies; then create_branch_and_pr picks the name.
upgrade_dependencies(t) ==
    /\ pc[t] = "l_upgrade"
    /\ \E ok \in BOOLEAN :
          IF ok /\ clone.exists
          THEN /\ loc' = [loc EXCEPT
                      ![t].upgraded_names = Upgraded(loc[t].outdated),
                      ![t].new_content = NpmUpgraded,
                      ![t].branch_name = generate_branch_name]
               /\ pc' = [pc EXCEPT ![t] = "l_branch"]
               /\ UNCHANGED <<clone, result>>
          ELSE Exit(t, Failure) /\ UNCHANGED loc
    /\ UNCHANGED <<_config, _session, _logs, resp, calls, cfgResp, remote,
                   registry, backend, now, requests>>
    /\ UNCHANGED <<fn, poll>>

\* git rev-parse HEAD, git branch <name> <sha>, git checkout <name>: any
\* non-zero exit status, "already exists" included, makes it return False.
create_branch(t) ==
    /\ pc[t] = "l_branch"
    /\ \E ok \in BOOLEAN :
          LET name == loc[t].branch_name IN
          IF ok /\ clone.exists /\ name \notin clone.branches
          THEN /\ calls' = [calls EXCEPT ![t] = Append(@, Call("branch", 201))]
               /\ clone' = [clone EXCEPT !.branches = @ \cup {name}]
               /\ pc' = [pc EXCEPT ![t] = "l_commit"]
               /\ UNCHANGED result
          ELSE /\ calls' = [calls EXCEPT ![t] = Append(@,
                      Call("branch",
                           IF ok /\ clone.exists THEN 422 ELSE 0))]
               /\ Exit(t, Failure)
    /\ UNCHANGED <<_config, _session, _logs, loc, resp, cfgResp, remote,
                   registry, backend, now, requests>>
    /\ UNCHANGED <<fn, poll>>

commit_changes(t) ==
    /\ pc[t] = "l_commit"
    /\ \E ok \in BOOLEAN :
          IF ok /\ clone.exists
          THEN /\ calls' = [calls EXCEPT ![t] = Append(@, Call("commit", 200))]
               /\ pc' = [pc EXCEPT ![t] = "l_push"]
               /\ UNCHANGED <<clone, result>>
          ELSE /\ calls' = [calls EXCEPT ![t] = Append(@, Call("commit", 0))]
               /\ Exit(t, Failure)
    /\ UNCHANGED <<_config, _session, _logs, loc, resp, cfgResp, remote,
                   registry, backend, now, requests>>
    /\ UNCHANGED <<fn, poll>>

\* git push origin <name>: rejected when the remote already has the branch.
\* subprocess.run is called without a timeout: it returns when git does.
push_branch(t) ==
    /\ pc[t] = "l_push"
    /\ remote.answers
    /\ \E ok \in BOOLEAN :
          LET name == loc[t].branch_name IN
          IF ok /\ clone.exists /\ ~BranchExists(remote, name)
          THEN /\ calls' = [calls EXCEPT ![t] = Append(@, Call("push", 200))]
               /\ remote' = [remote EXCEPT !.branches =
                      @ \cup {[name |-> name, content |-> loc[t].new_content]}]
               /\ pc' = [pc EXCEPT ![t] = "l_pr"]
               /\ UNCHANGED <<clone, result>>
          ELSE /\ calls' = [calls EXCEPT ![t] = Append(@, Call("push", 0))]
               /\ Exit(t, Failure)
               /\ UNCHANGED remote
    /\ UNCHANGED <<_config, _session, _logs, loc, resp, cfgResp, registry,
                   backend, now, requests>>
    /\ UNCHANGED <<fn, poll>>

\* POST pulls with base 'main' (main.py 411): only a 201 gives a URL; 422 (an
\* open pull request for the head, no branch of the base's name) and every
\* other answer give None.
create_pull_request(t) ==
    /\ pc[t] = "l_pr"
    /\ \E ok \in BOOLEAN :
          LET head == loc[t].branch_name IN
          IF ok /\ remote.answers /\ remote.has_main
                /\ OpenPRs(remote, head) = {}
          THEN /\ calls' = [calls EXCEPT ![t] = Append(@, Call("pr", 201))]
               /\ remote' = [remote EXCEPT !.prs =
                                Append(@, [head |-> head, open |-> TRUE,
                                           base |-> "main"])]
               /\ loc' = [loc EXCEPT ![t].pr_url = PrUrl(Len(remote.prs) + 1)]
               /\ pc' = [pc EXCEPT ![t] = "l_record"]
               /\ UNCHANGED <<clone, result>>
          ELSE /\ calls' = [calls EXCEPT ![t] = Append(@,
                      Call("pr", IF ok /\ remote.answers THEN 422 ELSE 0))]
               /\ Exit(t, Failure)
               /\ UNCHANGED <<remote, loc>>
    /\ UNCHANGED <<_config, _session, _logs, resp, cfgResp, registry, backend,
                   now, requests>>
    /\ UNCHANGED <<fn, poll>>

\* Steps 5 and 6: the record in memory, the cleanup, the result.
record_upgrade(t) ==
    /\ pc[t] = "l_record"
    /\ LET branch_name    == generate_branch_name
           upgraded_names == Names(loc[t].upgraded_names)
           recorded == MemoryManager_record_upgrade(loc[t].memory, branch_name,
                           upgraded_names, loc[t].pr_url, now)
       IN  loc' = [loc EXCEPT ![t].memory =
                      MemoryManager_update_last_check_time(recorded, now)]
    /\ Exit(t, Result(TRUE, Names(loc[t].upgraded_names), loc[t].pr_url))
    /\ UNCHANGED <<_config, _session, _logs, resp, calls, cfgResp, remote,
                   registry, backend, now, requests>>
    /\ UNCHANGED <<fn, poll>>

\* _do_cycle after run_cycle returned, and the answer of run_once.
fe_do_cycle(t) ==
    /\ pc[t] = "l_finish"
    /\ LET success  == result[t][1]
           upgraded == result[t][2]
           pr_url   == result[t][3]
           session  ==
               IF success /\ upgraded # <<>>
               THEN [cycles   |-> _session.cycles + 1,
                     prs      |-> _session.prs + 1,
                     packages |-> _session.packages + Len(upgraded),
                     history  |-> Append(_session.history,
                                     [timestamp |-> now, packages |-> upgraded,
                                      pr_url |-> pr_url])]
               ELSE _session
       IN  /\ _session' = session
           /\ resp' = [resp EXCEPT ![t] =
                  [success |-> TRUE, message |-> "ok",
                   stats |-> <<session.cycles, session.prs, session.packages>>,
                   history |-> session.history]]
    /\ pc' = [pc EXCEPT ![t] = "idle"]
    /\ loc' = [loc EXCEPT ![t] = NoLoc]
    /\ result' = [result EXCEPT ![t] = NoResult]
    /\ calls' = [calls EXCEPT ![t] = <<>>]
    /\ UNCHANGED <<_config, _logs, cfgResp, remote, registry, backend, clone,
                   now, requests>>
    /\ UNCHANGED <<fn, poll>>

\* ------------------------------------------------------------------------
\* Environment: the clock, and a maintainer merging an open pull request
\* ------------------------------------------------------------------------
\* The places whose next step reads the clock: the branch name (index.py
\* 306, pr_creator.py 145) and the timestamp of the history entry. The clock
\* shows only in what these steps read, so it is advanced right before one
\* of them.
ClockReaders == {"manifest", "finish", "l_upgrade", "l_record", "l_finish"}

Tick ==
    /\ UNCHANGED <<fn, poll>>
    /\ now < MaxTime
    /\ \E t \in Threads : pc[t] \in ClockReaders
    /\ now' = now + 1
    /\ UNCHANGED <<_config, _session, _logs, pc, loc, result, resp, calls,
                   cfgResp, remote, registry, backend, clone, requests>>

\* A maintainer merges an open pull request between two cycles.
MergePR ==
    /\ UNCHANGED <<fn, poll>>
    /\ \A t \in Threads : pc[t] = "idle"
    /\ \E i \in 1..Len(remote.prs) :
          /\ remote.prs[i].open
          /\ remote' = [remote EXCEPT
                 !.manifest =
                     IF remote.prs[i].base = remote.default_branch
                     THEN BranchContent(remote, remote.prs[i].head)
                     ELSE @,
                 !.prs[i].open = FALSE]
    /\ UNCHANGED <<_config, _session, _logs, pc, loc, result, resp, calls,
                   cfgResp, registry, backend, clone, now, requests>>

\* Somebody else opens the pull request for a pushed branch just before the
\* cycle that pushed it does (at any other time it changes no cycle).
OpenPRByOthers ==
    /\ UNCHANGED <<fn, poll>>
    /\ \E b \in remote.branches :
          /\ \E t \in Threads : /\ pc[t] \in {"open_pr", "l_pr"}
                                 /\ loc[t].branch_name = b.name
          /\ \A i \in 1..Len(remote.prs) : remote.prs[i].head # b.name
          /\ remote' = [remote EXCEPT !.prs =
                           Append(@, [head |-> b.name, open |-> TRUE,
                                      base |-> remote.default_branch])]
    /\ UNCHANGED <<_config, _session, _logs, pc, loc, result, resp, calls,
                   cfgResp, registry, backend, clone, now, requests>>

SaveConfig ==
    \E u \in Urls, k \in Tokens, i \in Intervals :
        save_config(u, k, i) \/ fe_save_config(u, k, i)

RunOnce ==
    \E t \in Threads :
        \/ Begin(t)
        \/ GetRepoInfo(t)
        \/ GetRef(t)
        \/ GetManifest(t)
        \/ _create_branch(t)
        \/ _commit_file(t)
        \/ _open_pr(t)
        \/ ListPRs(t)
        \/ Finish(t)
        \/ HandleException(t)

LocalRunOnce ==
    \E t \in Threads :
        \/ fe_run_once(t)
        \/ clone_repo(t)
        \/ check_outdated(t)
        \/ upgrade_dependencies(t)
        \/ create_branch(t)
        \/ commit_changes(t)
        \/ push_branch(t)
        \/ create_pull_request(t)
        \/ record_upgrade(t)
        \/ fe_do_cycle(t)

Next ==
    \/ SaveConfig
    \/ RunOnce
    \/ LocalRunOnce
    \/ fe_index
    \/ Tick
    \/ MergePR
    \/ OpenPRByOthers

Spec == Init /\ [][Next]_vars

\* ------------------------------------------------------------------------
\* The Version Differ and the Manifest Mutator on chosen inputs: what lines
\* 284-303 of _run_cycle compute from a manifest and the registry
\* ------------------------------------------------------------------------
V19   == <<"1", ".", "9">>
V110  == <<"1", ".", "1", "0">>
V100  == <<"1", ".", "0", ".", "0">>
V30   == <<"3", ".", "0">>
VX    == <<"x">>
V20rc == <<"2", ".", "0", "-", "r", "c">>

BareVersions == {V10, V20, V19, V110, V100, VX, V20rc}

RangePrefixes == {<<>>, <<"^">>, <<"~">>, <<">", "=">>, <<"<">>, <<"=">>}

Ranges == {p \o v : p \in RangePrefixes, v \in BareVersions}

DevEntries ==
    {<<>>, << <<"a", <<"~">> \o V10>> >>, << <<"b", <<"=">> \o V19>> >>}

PeerEntries == {<<>>, << <<"a", <<">", "=">> \o V30>> >>}

FnManifests ==
    {Obj(f, [NoSections EXCEPT !.dependencies = << <<"a", r>> >>,
                               !.devDependencies = d,
                               !.peerDependencies = q]) :
        f \in {"compact", "indent2"}, r \in Ranges,
        d \in DevEntries, q \in PeerEntries}

FnRegistries ==
    {[a |-> x, b |-> y] :
        x \in {NotFound} \cup {Found(v) : v \in BareVersions \cup {<<>>}},
        y \in {NotFound, Found(V20)}}

DifferInit ==
    /\ ServerInit
    /\ remote.manifest = Absent
    /\ backend = "serverless"
    /\ poll = NoPoll
    /\ fn \in {[stage |-> "in", content |-> m, reg |-> r, outdated |-> <<>>,
                out |-> [content |-> m, names |-> <<>>]] :
                  m \in FnManifests, r \in FnRegistries}

\* outdated = _check_outdated(all_deps)
Differ ==
    /\ fn.stage = "in"
    /\ fn' = [fn EXCEPT
                 !.stage = "diffed",
                 !.outdated = _check_outdated(AllDeps(fn.content.pkg), fn.reg)]
    /\ UNCHANGED <<serverVars, poll>>

\* new_content, upgraded_names = _update_package_json_content(pkg_content,
\* outdated)
Mutator ==
    /\ fn.stage = "diffed"
    /\ fn' = [fn EXCEPT
                 !.stage = "mutated",
                 !.out = _update_package_json_content(fn.content, fn.outdated)]
    /\ UNCHANGED <<serverVars, poll>>

\* The Mutator called with an empty outdated list.
MutatorOnEmpty ==
    /\ fn.stage = "in"
    /\ fn' = [fn EXCEPT
                 !.stage = "noop",
                 !.out = _update_package_json_content(fn.content, <<>>)]
    /\ UNCHANGED <<serverVars, poll>>

DifferNext == Differ \/ Mutator \/ MutatorOnEmpty

DifferSpec == DifferInit /\ [][DifferNext]_vars

\* ------------------------------------------------------------------------
\* GET /api/logs polled by one client while the server appends log lines,
\* between two resets of the session
\* ------------------------------------------------------------------------
LogInit ==
    /\ ServerInit
    /\ remote.manifest = Absent
    /\ backend = "serverless"
    /\ fn = NoFn
    /\ poll = NoPoll

\* _add_log(message): the lines are numbered in the order they are appended.
AddLine ==
    /\ poll.appended < MaxLines
    /\ _logs' = AppendLine(_logs, Log(<<"line", poll.appended + 1>>, "info"))
    /\ poll' = [poll EXCEPT !.appended = @ + 1, !.fresh = FALSE]
    /\ UNCHANGED <<_config, _session, pc, loc, result, resp, calls, cfgResp,
                   remote, registry, now, requests, backend, clone, fn>>

\* get_logs with the offset the client kept from the previous answer
\* (_logOffset = data.next_offset); the client appends the lines it is sent.
get_logs ==
    /\ LET offset   == poll.offset
           new_logs == SubSeq(_logs, offset + 1, Len(_logs))
       IN  poll' = [poll EXCEPT
                       !.offset = offset + Len(new_logs),
                       !.received = @ \o [i \in 1..Len(new_logs) |->
                                             new_logs[i].message[2]],
                       !.fresh = TRUE]
    /\ UNCHANGED <<serverVars, fn>>

LogNext == AddLine \/ get_logs

LogSpec == LogInit /\ [][LogNext]_vars

\* ------------------------------------------------------------------------
\* The local backend with a remote that may stop answering: does every cycle
\* end?  The worker thread of a started cycle keeps running (weak fairness of
\* its steps); requests and the silence of the remote are up to the world.
\* ------------------------------------------------------------------------
\* GitHub stops answering, for good.
GoSilent ==
    /\ backend = "local"
    /\ remote.answers
    /\ remote' = [remote EXCEPT !.answers = FALSE]
    /\ UNCHANGED <<_config, _session, _logs, pc, loc, result, resp, calls,
                   cfgResp, registry, backend, clone, now, requests>>
    /\ UNCHANGED <<fn, poll>>

\* The steps of a started cycle, and its answer.
CycleStep(t) ==
    \/ clone_repo(t)
    \/ check_outdated(t)
    \/ upgrade_dependencies(t)
    \/ create_branch(t)
    \/ commit_changes(t)
    \/ push_branch(t)
    \/ create_pull_request(t)
    \/ record_upgrade(t)
    \/ fe_do_cycle(t)

HangInit == Init /\ backend = "local"

HangNext ==
    \/ \E u \in Urls, k \in Tokens, i \in Intervals : fe_save_config(u, k, i)
    \/ \E t \in Threads : fe_run_once(t)
    \/ \E t \in Threads : CycleStep(t)
    \/ GoSilent
    \/ Tick

HangSpec ==
    /\ HangInit
    /\ [][HangNext]_vars
    /\ \A t \in Threads : WF_vars(CycleStep(t))

\* ------------------------------------------------------------------------
\* Both backends on a repository whose default branch is main or master
\* ------------------------------------------------------------------------
DefaultBranchInit ==
    /\ ServerInitFor({"main", "master"}, Manifests)
    /\ fn = NoFn
    /\ poll = NoPoll

DefaultBranchSpec == DefaultBranchInit /\ [][Next]_vars

\* ------------------------------------------------------------------------
\* Properties
\* ------------------------------------------------------------------------
Last(q) == q[Len(q)]

LastCall(t) == IF calls[t] = <<>> THEN Call("none", 0) ELSE Last(calls[t])

Made(t, api) == {i \in 1..Len(calls[t]) : calls[t][i].api = api}

\* _run_cycle / run_cycle has returned and run_once has not answered yet.
Returned(t) == pc[t] \in {"finish", "l_finish"}

\* C1 (as claimed): whenever a stage of the cycle fails, the orchestrator
\* returns the failure tuple, and no exception ever leaves the orchestrator
\* towards run_once.
C1_FailureIsReturned ==
    \A t \in Threads :
        /\ pc[t] # "raised"
        /\ (Returned(t) /\ LastCall(t).status = 0) => result[t] = Failure

\* The manifest was looked for and the repository has none.
AbsentRun(t) ==
    \/ LastCall(t) = Call("contents", 404)
    \/ /\ LastCall(t) = Call("clone", 200)
       /\ loc[t].pkg_content.kind = "absent"

\* The manifest was read and none of its entries is behind the registry.
NoOutdatedRun(t) ==
    /\ LastCall(t) \in {Call("contents", 200), Call("clone", 200)}
    /\ loc[t].pkg_content.kind = "object"
    /\ _check_outdated(AllDeps(loc[t].pkg_content.pkg), registry) = <<>>

PublishApis == {"branch", "commit", "push", "pr", "list_prs"}

CommitPushedWarning == Log("no_pr_url_commit_pushed", "warning")

StepOk(c) ==
    \/ c.status \in {200, 201}
    \/ backend = "serverless" /\ c.api \in {"branch", "pr"} /\ c.status = 422

\* Every publish call of the cycle of t follows the successful call of the
\* step before it, and nothing follows a failed one.
Gated(t) ==
    \A i \in DOMAIN calls[t] :
        LET c == calls[t][i] IN
        /\ c.api = "commit" =>
               i > 1 /\ calls[t][i-1].api = "branch" /\ StepOk(calls[t][i-1])
        /\ c.api = "push" => i > 1 /\ calls[t][i-1] = Call("commit", 200)
        /\ c.api = "pr" =>
               i > 1 /\ calls[t][i-1] \in {Call("commit", 200),
                                           Call("push", 200)}
        /\ (c.api \in PublishApis /\ ~StepOk(c)) => i = Len(calls[t])

C7_ExistingBranchProceeds ==
    \A t \in Threads :
        \A i \in DOMAIN calls[t] :
            calls[t][i] = Call("branch", 422) =>
                IF i < Len(calls[t]) THEN calls[t][i+1].api = "commit"
                ELSE pc[t] \in {"commit", "l_commit"}

\* C8 (as claimed): a cycle that was told the pull request already exists
\* returns the non-empty URL of the existing open pull request, and the
\* branch has one pull request only.
C8_ExistingPrUrlReturned ==
    \A t \in Threads :
        (Returned(t) /\ \E i \in DOMAIN calls[t] : calls[t][i] = Call("pr", 422))
            => /\ result[t] # Failure
               /\ result[t][3] # <<>>
               /\ Cardinality({i \in DOMAIN remote.prs :
                      remote.prs[i].head = loc[t].branch_name}) = 1

\* This run-once began after a run that upgraded packages and got the URL of
\* its pull request had answered, with no other run started in between.
AfterSuccess(t) ==
    /\ loc[t].history0 # <<>>
    /\ Last(loc[t].history0).pr_url # <<>>

Merged == \E i \in DOMAIN remote.prs : ~remote.prs[i].open

\* C9 (as claimed): a run that follows a run which committed its upgrades and
\* opened the pull request computes an empty outdated list and makes no
\* branch, commit or pull-request call.
C9_SecondRunIsNoop ==
    \A t \in Threads :
        AfterSuccess(t) =>
            /\ loc[t].outdated = <<>>
            /\ \A i \in DOMAIN calls[t] : calls[t][i].api \notin PublishApis

\* C9 (amended): the first run commits on its update branch only, so the
\* second run reads the same default-branch manifest: it computes an empty
\* outdated list exactly when a pull request has been merged in between, and
\* otherwise finds outdated packages again and goes on to create a branch.
C9_SecondRunRepeatsUnlessMerged ==
    [][\A t \in Threads :
          (/\ pc[t] = "manifest"
           /\ LastCall(t)' = Call("contents", 200)
           /\ AfterSuccess(t)) =>
              /\ remote.manifest.kind = "object"
              /\ (loc'[t].outdated = <<>>) <=> Merged
              /\ (pc'[t] = "create_branch") <=> ~Merged
              /\ (pc'[t] = "finish") <=> Merged]_vars

C9_Witness ==
    \E t \in Threads :
        /\ AfterSuccess(t)
        /\ pc[t] = "create_branch"
        /\ loc[t].outdated # <<>>
        /\ ~Merged

\* C10 (as claimed): at most one run-once request is past its checks and
\* before its answer at any time.
C10_OneCycleInFlight ==
    Cardinality({t \in Threads : pc[t] # "idle"}) <= 1

\* ------------------------------------------------------------------------
\* Version Differ and Manifest Mutator (DifferSpec)
\* ------------------------------------------------------------------------
InOutdated(outdated, name) ==
    \E i \in 1..Len(outdated) : outdated[i].name = name

\* a > b in the lexicographic order of integer tuples: they agree up to some
\* position where a has the larger number, or where b has ended.
LexGreater(a, b) ==
    \E k \in 1..Len(a) :
        /\ \A j \in 1..(k - 1) : j <= Len(b) /\ a[j] = b[j]
        /\ k > Len(b) \/ a[k] > b[k]

Unusable(reg, name, range) ==
    LET latest == _get_latest_version(reg, name)
    IN  \/ latest = NoVersion
        \/ ~TupleOk(latest)
        \/ ~TupleOk(_parse_version(range))

Without(deps, name) == SelectSeq(deps, LAMBDA e : e[1] # name)

C13_PrefixPreserved ==
    fn.stage = "mutated" =>
        \A s \in 1..Len(Sections), k \in 1..Len(fn.outdated) :
            LET before == fn.content.pkg[Sections[s]]
                after  == fn.out.content.pkg[Sections[s]]
                item   == fn.outdated[k]
            IN  \A i \in 1..Len(before), p \in RangePrefixes,
                   v \in BareVersions :
                    before[i] = <<item.name, p \o v>> =>
                        /\ Len(after) = Len(before)
                        /\ after[i] = <<item.name, p \o item.latest>>
                        /\ \E j \in 1..Len(fn.out.names) :
                               fn.out.names[j] = [name |-> item.name,
                                                  latest |-> item.latest]

C13_Witness ==
    /\ fn.stage = "mutated"
    /\ fn.content.pkg.dependencies = << <<"a", <<">", "=">> \o V19>> >>
    /\ fn.out.content.pkg.dependencies = << <<"a", <<">", "=">> \o V110>> >>
    /\ fn.out.names = <<[name |-> "a", latest |-> V110]>>

\* C14 (as claimed): with an empty outdated list the Mutator returns content
\* identical to its input text, and an empty changed-list.
C14_NoopKeepsText ==
    fn.stage = "noop" =>
        fn.out.content = fn.content /\ fn.out.names = <<>>

\* C14 (amended): with an empty outdated list the Mutator returns the same
\* JSON object, serialised again with indent 2 and a final newline, and an
\* empty changed-list; the text is the input text exactly when the input was
\* already in that layout.
C14_NoopKeepsObject ==
    fn.stage = "noop" =>
        /\ fn.out.content.pkg = fn.content.pkg
        /\ fn.out.content.fmt = "indent2"
        /\ fn.out.names = <<>>
        /\ (fn.out.content = fn.content) <=> (fn.content.fmt = "indent2")

C14_Witness ==
    /\ fn.stage = "noop"
    /\ fn.content.fmt = "compact"
    /\ fn.out.content = Obj("indent2", fn.content.pkg)
    /\ fn.out.names = <<>>

\* C15 (as claimed): the mutated manifest of a cycle differs from the fetched
\* one only in entries that are themselves outdated: in each of the four
\* sections an entry's value is changed only if the version that entry
\* declares is strictly lower than the latest version of its package.
C15_OnlyOutdatedEntriesChange ==
    fn.stage = "mutated" =>
        \A s \in 1..Len(Sections) :
            LET before == fn.content.pkg[Sections[s]]
                after  == fn.out.content.pkg[Sections[s]]
            IN  /\ Len(after) = Len(before)
                /\ \A i \in 1..Len(before) :
                       LET declared == _parse_version(before[i][2])
                           latest   == _get_latest_version(fn.reg,
                                                           before[i][1])
                       IN  after[i] # before[i] =>
                               /\ TupleOk(declared)
                               /\ TupleOk(latest)
                               /\ LexGreater(TupleOf(latest),
                                             TupleOf(declared))

\* ------------------------------------------------------------------------
\* Branch names, history, configuration (Spec)
\* ------------------------------------------------------------------------
\* C16 (as claimed): the branch name a cycle has generated is unique: when
\* the cycle is about to create its branch, no other cycle, earlier or
\* concurrent, has generated and created a branch of that name.
C16_BranchNamesUnique ==
    \A t \in Threads :
        /\ pc[t] = "create_branch" =>
               ~BranchExists(remote, loc[t].branch_name)
        /\ pc[t] = "l_branch" =>
               /\ ~BranchExists(remote, loc[t].branch_name)
               /\ loc[t].branch_name \notin clone.branches

IsPrefix(a, b) == Len(a) <= Len(b) /\ SubSeq(b, 1, Len(a)) = a

\* The handler thread t answers a cycle that succeeded and upgraded packages.
AnswersUpgrade(t) ==
    /\ pc[t] \in {"finish", "l_finish"}
    /\ pc'[t] = "idle"
    /\ result[t][1]
    /\ result[t][2] # <<>>

\* A run-once request starts a cycle, a configuration is saved, or (local
\* backend) the page is loaded.
ResetStep ==
    \/ \E t \in Threads : pc[t] = "idle" /\ pc'[t] # "idle"
    \/ /\ pc' = pc
       /\ requests' # requests
       /\ \/ cfgResp'.success
          \/ backend = "local" /\ _config'.token = ""

C18_EveryLineOnceInOrder ==
    /\ \A i \in 1..Len(poll.received) : poll.received[i] = i
    /\ poll.fresh => Len(poll.received) = poll.appended

\* The values a configure request may store: the URL is not empty and begins
\* with https://github.com/, the token is not empty, the interval is >= 60.
Acceptable(u, k, i) ==
    /\ u # UrlEmpty
    /\ Len(u) > 3
    /\ SubSeq(u, 1, 3) = <<"https:", "", "github.com">>
    /\ k # ""
    /\ i >= 60

\* C20: configure is accepted only if the URL is not empty and starts with
\* https://github.com/, the token is not empty and the interval is at least
\* 60; a rejected configure leaves the stored configuration, the session
\* counters, the history and the logs unchanged; an accepted configure stores
\* the three values and resets the session.
C20_ConfigureValidates ==
    [][requests' # requests /\ pc' = pc =>
           \A u \in Urls, k \in Tokens, i \in Intervals :
               (save_config(u, k, i) \/ fe_save_config(u, k, i)) =>
                   /\ cfgResp'.success <=> Acceptable(u, k, i)
                   /\ ~Acceptable(u, k, i) =>
                          UNCHANGED <<_config, _session, _logs>>
                   /\ Acceptable(u, k, i) =>
                          /\ _config' = [repo_url |-> u, token |-> k,
                                         check_interval |-> i]
                          /\ _session' = EmptySession]_vars

\* A configure was rejected after an earlier one was accepted and a cycle
\* recorded an upgrade.
C20_Witness ==
    /\ ~cfgResp.success
    /\ cfgResp.message \in {"invalid_url", "interval_too_low"}
    /\ _config.repo_url = UrlGood
    /\ _config.token = "tok"
    /\ _session.history # <<>>

\* ------------------------------------------------------------------------
\* The local-clone variant (Spec)
\* ------------------------------------------------------------------------
\* The stages of run_cycle of the local backend.
CycleStages ==
    {"l_clone", "l_check", "l_upgrade", "l_branch", "l_commit", "l_push",
     "l_pr", "l_record"}

C22_EveryCycleEnds ==
    \A t \in Threads : (pc[t] # "idle") ~> (pc[t] = "idle")

\* The cycle of handler t has opened a pull request (201) and not answered.
PrOpened(t) ==
    \/ pc[t] = "l_record"
    \/ pc[t] = "finish" /\ LastCall(t) = Call("pr", 201)

\* C23 (as claimed): the pull request a cycle has opened has the branch that
\* cycle created as its head and the repository's default branch as its base,
\* whatever the default branch is named.
C23_PrIntoDefaultBranch ==
    \A t \in Threads :
        PrOpened(t) =>
            \E i \in 1..Len(remote.prs) :
                /\ remote.prs[i].head = loc[t].branch_name
                /\ BranchExists(remote, loc[t].branch_name)
                /\ remote.prs[i].base = remote.default_branch

\* A memory.json written by an earlier run: one entry whose timestamp is ''
\* and one recorded at the instant 0.
SavedMemory ==
    <<<<"repo_url", "url">>, <<"last_checked", isoformat(0)>>,
      <<"last_updated",
        <<[branch |-> "br0", packages |-> <<"b">>, timestamp |-> NoTimestamp,
           pr_url |-> ""],
          [branch |-> "br0", packages |-> <<"a">>, timestamp |-> isoformat(0),
           pr_url |-> "pr0"]>>>>,
      <<"total_runs", 1>>, <<"successful_upgrades", 1>>>>

\* The memory file before the MemoryManager is constructed.
MemoryFiles ==
    {[kind |-> "missing", data |-> EmptyDict],
     [kind |-> "corrupt", data |-> EmptyDict],
     [kind |-> "json", data |-> EmptyDict],
     [kind |-> "json", data |-> SavedMemory]}

\* The arguments of the record_upgrade calls.
UpgradeCalls ==
    {[branch |-> "br1", packages |-> <<"a">>, pr_url |-> "pr1"],
     [branch |-> "br2", packages |-> <<"b", "c">>, pr_url |-> ""]}

MaxCalls == 2
MaxAdvances == 2
QueryDays == {1, FilterDays}
QueryNames == {"a", "b"}
OutdatedLists ==
    {<<>>, <<[name |-> "a"]>>,
     <<[name |-> "d"], [name |-> "a"], [name |-> "b"]>>}

NoAnswer == [asked |-> "none"]

MemoryInit ==
    /\ ServerInit
    /\ remote.manifest = Absent
    /\ backend = "serverless"
    /\ poll = NoPoll
    /\ fn \in {[stage |-> "file", file |-> f, from |-> f, memory |-> EmptyDict,
                clock |-> 0, advances |-> 0, history |-> <<>>,
                answer |-> NoAnswer] : f \in MemoryFiles}

\* MemoryManager(memory_file): __init__ calls load_memory.
MemoryManager ==
    /\ fn.stage = "file"
    /\ fn' = [fn EXCEPT !.stage = "loaded", !.memory = load_memory(fn.file)]
    /\ UNCHANGED <<serverVars, poll>>

\* manager.update_last_check_time()
UpdateLastCheckTime ==
    /\ fn.stage = "loaded"
    /\ Len(fn.history) < MaxCalls
    /\ fn' = [fn EXCEPT
                 !.memory = MemoryManager_update_last_check_time(@, fn.clock),
                 !.history = Append(@, [op |-> "update_last_check_time",
                                        branch |-> "", packages |-> <<>>,
                                        pr_url |-> "", t |-> fn.clock]),
                 !.answer = NoAnswer]
    /\ UNCHANGED <<serverVars, poll>>

\* manager.record_upgrade(branch_name, packages, pr_url), which ends with
\* save_memory writing the memory to the file.
RecordUpgrade ==
    /\ fn.stage = "loaded"
    /\ Len(fn.history) < MaxCalls
    /\ \E c \in UpgradeCalls :
          LET m == MemoryManager_record_upgrade(fn.memory, c.branch,
                                                c.packages, c.pr_url, fn.clock)
          IN  fn' = [fn EXCEPT
                        !.memory = m,
                        !.file = [kind |-> "json", data |-> m],
                        !.history = Append(@, [op |-> "record_upgrade",
                                               branch |-> c.branch,
                                               packages |-> c.packages,
                                               pr_url |-> c.pr_url,
                                               t |-> fn.clock]),
                        !.answer = NoAnswer]
    /\ UNCHANGED <<serverVars, poll>>

\* Time passes between the calls: a day, or the seven days of the filter.
AdvanceClock ==
    /\ fn.stage = "loaded"
    /\ fn.advances < MaxAdvances
    /\ \E days \in QueryDays :
          fn' = [fn EXCEPT !.clock = @ + days * SecondsPerDay,
                           !.advances = @ + 1,
                           !.answer = NoAnswer]
    /\ UNCHANGED <<serverVars, poll>>

\* manager.has_been_upgraded(package_name, days) and
\* manager.get_recently_upgraded_packages(days)
AskRecent ==
    /\ fn.stage = "loaded"
    /\ \E package_name \in QueryNames, days \in QueryDays :
          fn' = [fn EXCEPT !.answer =
                    [asked |-> "recent", package_name |-> package_name,
                     days |-> days,
                     has |-> has_been_upgraded(fn.memory, package_name, days,
                                               fn.clock),
                     recent |-> get_recently_upgraded_packages(fn.memory,
                                               days, fn.clock)]]
    /\ UNCHANGED <<serverVars, poll>>

\* checker.filter_packages_to_upgrade(outdated_list, memory)
AskFilter ==
    /\ fn.stage = "loaded"
    /\ \E outdated_list \in OutdatedLists :
          fn' = [fn EXCEPT !.answer =
                    [asked |-> "filter", outdated_list |-> outdated_list,
                     filtered |-> filter_packages_to_upgrade(outdated_list,
                                               fn.memory, fn.clock)]]
    /\ UNCHANGED <<serverVars, poll>>

\* manager.get_stats()
AskStats ==
    /\ fn.stage = "loaded"
    /\ fn' = [fn EXCEPT !.answer =
                 [asked |-> "stats", stats |-> get_stats(fn.memory, fn.clock)]]
    /\ UNCHANGED <<serverVars, poll>>

MemoryNext ==
    \/ MemoryManager
    \/ UpdateLastCheckTime
    \/ RecordUpgrade
    \/ AdvanceClock
    \/ AskRecent
    \/ AskFilter
    \/ AskStats

MemorySpec == MemoryInit /\ [][MemoryNext]_vars

\* The record_upgrade calls, the update_last_check_time calls made so far.
RecordCalls == SelectSeq(fn.history, LAMBDA c : c.op = "record_upgrade")
CheckCalls == SelectSeq(fn.history, LAMBDA c : c.op = "update_last_check_time")

\* The manager was constructed on a file that gave it an empty memory.
FromEmptyMemory ==
    /\ fn.stage = "loaded"
    /\ load_memory(fn.from) \in {EmptyDict, _create_empty_memory}

\* C24: starting from an empty memory, after any sequence of record_upgrade
\* and update_last_check_time calls the successful_upgrades counter is the
\* number of record_upgrade calls, last_updated has one entry per such call,
\* in call order, with the branch, packages and pr_url of the call,
\* total_runs is the number of update_last_check_time calls, and get_stats
\* reports the same two counters.
C24_CountersMatchCalls ==
    FromEmptyMemory =>
        LET entries == DictGet(fn.memory, "last_updated", <<>>)
            stats   == get_stats(fn.memory, fn.clock)
        IN  /\ DictGet(fn.memory, "successful_upgrades", 0) = Len(RecordCalls)
            /\ Len(entries) = Len(RecordCalls)
            /\ \A i \in 1..Len(entries) :
                   /\ entries[i].branch = RecordCalls[i].branch
                   /\ entries[i].packages = RecordCalls[i].packages
                   /\ entries[i].pr_url = RecordCalls[i].pr_url
            /\ DictGet(fn.memory, "total_runs", 0) = Len(CheckCalls)
            /\ stats.successful_upgrades = Len(RecordCalls)
            /\ stats.total_runs = Len(CheckCalls)
            /\ fn.answer.asked = "stats" => fn.answer.stats = stats

\* Two upgrades have been recorded in a memory loaded from the file {} and
\* get_stats has been called.
C24_Witness ==
    /\ FromEmptyMemory
    /\ fn.from.kind = "json"
    /\ Len(RecordCalls) = MaxCalls
    /\ RecordCalls[1].packages # RecordCalls[2].packages
    /\ fn.answer.asked = "stats"
    /\ fn.answer.stats.successful_upgrades = MaxCalls

\* C25 (as claimed): after the MemoryManager is constructed on any memory
\* file (missing, corrupt, or valid JSON such as {}), its memory has the keys
\* repo_url, last_checked and last_updated, and on a file that holds no
\* earlier run last_checked is None until update_last_check_time is called.
C25_KeysAfterConstruction ==
    fn.stage = "loaded" =>
        /\ HasKey(fn.memory, "repo_url")
        /\ HasKey(fn.memory, "last_checked")
        /\ HasKey(fn.memory, "last_updated")
        /\ fn.from.data = EmptyDict /\ CheckCalls = <<>> =>
               Lookup(fn.memory, "last_checked") = NoTimestamp

\* The instants and package lists of the upgrades recorded so far, those of
\* the file the manager was constructed on included.
Recorded ==
    LET loaded == DictGet(load_memory(fn.from), "last_updated", <<>>)
    IN  {[t |-> loaded[i].timestamp[1], packages |-> loaded[i].packages] :
            i \in {k \in 1..Len(loaded) : loaded[k].timestamp # NoTimestamp}}
        \cup {[t |-> RecordCalls[i].t, packages |-> RecordCalls[i].packages] :
                 i \in 1..Len(RecordCalls)}

\* Package p is listed by an upgrade recorded within the last d days.
RecordedWithin(p, d) ==
    \E r \in Recorded :
        /\ fn.clock - r.t <= d * SecondsPerDay
        /\ \E j \in 1..Len(r.packages) : r.packages[j] = p

\* C26: has_been_upgraded(p, d) is true exactly when an entry recorded
\* within the last d days lists p, it agrees with membership of p in
\* get_recently_upgraded_packages(d), and filter_packages_to_upgrade removes
\* from the outdated list exactly the packages upgraded within the last seven
\* days, keeping the others in their order.
C26_RecentAgrees ==
    fn.stage = "loaded" =>
        /\ \A p \in QueryNames, d \in QueryDays :
               /\ has_been_upgraded(fn.memory, p, d, fn.clock)
                      <=> RecordedWithin(p, d)
               /\ has_been_upgraded(fn.memory, p, d, fn.clock)
                      <=> p \in get_recently_upgraded_packages(fn.memory, d,
                                                               fn.clock)
        /\ fn.answer.asked = "recent" =>
               /\ fn.answer.has <=>
                      RecordedWithin(fn.answer.package_name, fn.answer.days)
               /\ fn.answer.has <=> fn.answer.package_name \in fn.answer.recent
        /\ fn.answer.asked = "filter" =>
               fn.answer.filtered =
                   SelectSeq(fn.answer.outdated_list,
                             LAMBDA pkg : ~ RecordedWithin(pkg.name,
                                                           FilterDays))

\* The filter has dropped a package upgraded a day ago and kept, in order, one
\* never upgraded and one whose upgrade is more than seven days old.
C26_Witness ==
    /\ fn.stage = "loaded"
    /\ fn.answer.asked = "filter"
    /\ Len(fn.answer.outdated_list) = 3
    /\ fn.answer.filtered = <<[name |-> "d"], [name |-> "a"]>>
    /\ RecordedWithin("b", 1)
    /\ \E r \in Recorded : r.packages = <<"a">> /\ ~ RecordedWithin("a", FilterDays)

\* ------------------------------------------------------------------------
\* UpgradeExecutor.upgrade_dependencies (skills/upgrade_executor.py)
\* ------------------------------------------------------------------------
\* _read_package_json: the parsed file, None when it is missing or unreadable
_read_package_json(file) == IF file.kind = "object" THEN file.pkg ELSE NoSections

Readable(file) == file.kind = "object"

\* npm install <name>@latest --save: the range of name becomes ^latest in the
\* section that lists it, in dependencies when no section does.
NpmInstallLatest(file, name) ==
    LET listed == {i \in 1..Len(Sections) : HasKey(file.pkg[Sections[i]], name)}
        sec    == IF listed = {} THEN "dependencies"
                  ELSE Sections[CHOOSE i \in listed : \A j \in listed : i <= j]
    IN  [file EXCEPT !.pkg[sec] = DictSet(@, name, <<"^">> \o V20)]

NpmOutcomes == {"installed", "failed", "timeout"}

\* The loop of _run_npm_update over packages: a failed install is skipped,
\* TimeoutExpired leaves the loop with what was installed so far.
RECURSIVE NpmInstallEach(_, _, _)
NpmInstallEach(file, packages, outcomes) ==
    IF packages = <<>> THEN [file |-> file, success |-> TRUE]
    ELSE IF Head(outcomes) = "timeout" THEN [file |-> file, success |-> FALSE]
    ELSE NpmInstallEach(IF Head(outcomes) = "installed"
                        THEN NpmInstallLatest(file, Head(packages))
                        ELSE file,
                        Tail(packages), Tail(outcomes))

\* _run_npm_update(repo_path, packages): with packages, one install each and
\* a closing npm install; without, npm update, which leaves package.json.
_run_npm_update(file, packages, outcomes, closing) ==
    IF packages # <<>>
    THEN LET each == NpmInstallEach(file, packages, outcomes)
         IN  [each EXCEPT !.success = @ /\ closing # "timeout"]
    ELSE [file |-> file, success |-> closing = "installed"]

\* _get_updated_packages(old_pkg, new_pkg); _find_all_differences is the same
\* comparison.
_get_updated_packages(old_pkg, new_pkg) ==
    LET old_all == AllDeps(old_pkg)
        new_all == AllDeps(new_pkg)
        changed(i) == /\ HasKey(new_all, old_all[i][1])
                      /\ Lookup(new_all, old_all[i][1]) # <<>>
                      /\ Lookup(new_all, old_all[i][1]) # old_all[i][2]
        F[i \in 0..Len(old_all)] ==
            IF i = 0 THEN <<>>
            ELSE IF changed(i)
                 THEN Append(F[i - 1],
                             [name |-> old_all[i][1], old |-> old_all[i][2],
                              new |-> Lookup(new_all, old_all[i][1])])
                 ELSE F[i - 1]
    IN  F[Len(old_all)]

_find_all_differences(old_pkg, new_pkg) == _get_updated_packages(old_pkg, new_pkg)

NoBackup == [kind |-> "none", fmt |-> "none", pkg |-> NoSections]

\* _restore_package_json: copy the backup over package.json and remove it,
\* unless there is no backup or the copy fails.
_restore_package_json(dir, copied) ==
    IF dir.backup = NoBackup \/ ~ copied THEN dir
    ELSE [package_json |-> dir.backup, backup |-> NoBackup]

\* upgrade_dependencies(repo_path, packages) on the working copy dir
\* (package.json and package.json.backup); npm answers by outcomes and
\* closing, the copies to and from the backup succeed by backed and copied.
\* Gives the working copy it leaves and the pair it returns.
UpgradeDependencies(dir, packages, outcomes, closing, backed, copied) ==
    IF ~ Readable(dir.package_json)
    THEN [dir |-> dir, ret |-> <<FALSE, <<>>>>]
    ELSE
    LET old_package_json == _read_package_json(dir.package_json)
        dir1 == IF backed THEN [dir EXCEPT !.backup = dir.package_json]
                ELSE dir
        npm  == _run_npm_update(dir1.package_json, packages, outcomes, closing)
        dir2 == [dir1 EXCEPT !.package_json = npm.file]
        new_package_json == _read_package_json(dir2.package_json)
        upgraded_packages ==
            LET u == _get_updated_packages(old_package_json, new_package_json)
            IN  IF u = <<>> /\ old_package_json # new_package_json
                THEN _find_all_differences(old_package_json, new_package_json)
                ELSE u
    IN  IF ~ npm.success
        THEN [dir |-> _restore_package_json(dir2, copied),
              ret |-> <<FALSE, <<>>>>]
        ELSE IF packages # <<>> /\ upgraded_packages = <<>>
        THEN [dir |-> [dir2 EXCEPT !.backup = NoBackup],
              ret |-> <<FALSE, <<>>>>]
        ELSE [dir |-> [dir2 EXCEPT !.backup = NoBackup],
              ret |-> <<TRUE, upgraded_packages>>]

\* The package.json of the working copy at the call.
PkgWithOptional ==
    [PkgOutdated EXCEPT !.optionalDependencies = << <<"o", <<"^">> \o V10>> >>]

UpgradeFiles ==
    {Absent, BadJson, Obj("indent2", PkgCurrent), Obj("compact", PkgOutdated),
     Obj("indent2", PkgWithOptional)}

\* The package names of the call: none (all packages), or the outdated ones.
UpgradeLists == {<<>>, <<"a">>, <<"a", "b">>, <<"o">>, <<"b", "o">>}

UpgradeInit ==
    /\ ServerInit
    /\ remote.manifest = Absent
    /\ backend = "serverless"
    /\ poll = NoPoll
    /\ fn \in {[stage |-> "call",
                dir |-> [package_json |-> f, backup |-> NoBackup],
                at_call |-> f, packages |-> p, ret |-> <<FALSE, <<>>>>] :
                  f \in UpgradeFiles, p \in UpgradeLists}

\* success, upgraded = executor.upgrade_dependencies(repo_path, packages)
UpgradeCall ==
    /\ fn.stage = "call"
    /\ \E outcomes \in [1..Len(fn.packages) -> NpmOutcomes],
          closing \in NpmOutcomes, backed \in BOOLEAN, copied \in BOOLEAN :
          LET r == UpgradeDependencies(fn.dir, fn.packages, outcomes, closing,
                                       backed, copied)
          IN  fn' = [fn EXCEPT !.stage = "returned", !.dir = r.dir,
                               !.ret = r.ret]
    /\ UNCHANGED <<serverVars, poll>>

\* The next cycle clones afresh and calls again on what it finds.
UpgradeAgain ==
    /\ fn.stage = "returned"
    /\ \E f \in UpgradeFiles, p \in UpgradeLists :
          fn' = [fn EXCEPT !.stage = "call",
                           !.dir = [package_json |-> f, backup |-> NoBackup],
                           !.at_call = f, !.packages = p]
    /\ UNCHANGED <<serverVars, poll>>

UpgradeNext == UpgradeCall \/ UpgradeAgain

UpgradeSpec == UpgradeInit /\ [][UpgradeNext]_vars

\* C27 (as claimed): whenever upgrade_dependencies returns (False, []), the
\* package.json of the working copy has the content it had at the call.
C27_FailureRollsBack ==
    fn.stage = "returned" /\ fn.ret = <<FALSE, <<>>>> =>
        fn.dir.package_json = fn.at_call

\* ------------------------------------------------------------------------
\* Session counters and history (both backends)
\* ------------------------------------------------------------------------
\* A library's package.json: 'a' is a dependency and a peer dependency.
PkgPeer ==
    [NoSections EXCEPT !.dependencies = << <<"a", <<"^">> \o V10>> >>,
                       !.peerDependencies = << <<"a", <<">", "=">> \o V10>> >>]

SessionInit ==
    /\ ServerInitFor({"main"}, {Obj("compact", PkgOutdated),
                                Obj("indent2", PkgPeer)})
    /\ fn = NoFn
    /\ poll = NoPoll

SessionSpec == SessionInit /\ [][Next]_vars

\* The distinct packages of a history entry.
Distinct(packages) == {packages[i] : i \in 1..Len(packages)}

RECURSIVE DistinctTotal(_)
DistinctTotal(history) ==
    IF history = <<>> THEN 0
    ELSE Cardinality(Distinct(Head(history).packages))
             + DistinctTotal(Tail(history))

\* C28 (as claimed): in every reachable state the session counters are
\* derivable from the history: cycles is the number of history entries, no
\* entry lists a package twice and packages is the number of distinct
\* packages of the entries summed over the history, prs is the number of
\* entries with a non-empty PR URL.
C28_CountersFromHistory ==
    /\ _session.cycles = Len(_session.history)
    /\ \A i \in 1..Len(_session.history) :
           Cardinality(Distinct(_session.history[i].packages))
               = Len(_session.history[i].packages)
    /\ _session.packages = DistinctTotal(_session.history)
    /\ _session.prs = Cardinality({i \in 1..Len(_session.history) :
                                      _session.history[i].pr_url # <<>>})

\* ------------------------------------------------------------------------
\* The branch recorded in memory (local-clone variant)
\* ------------------------------------------------------------------------
\* The cycle of handler t has recorded its upgrade and not yet been answered.
Recording(t) == pc[t] = "l_finish" /\ result[t][1] = TRUE

\* C29 (as claimed): the branch name record_upgrade stores in memory is the
\* name of the branch the cycle created, pushed and used as the head of its
\* pull request.
C29_RecordedBranchIsHead ==
    \A t \in Threads :
        Recording(t) =>
            LET last_updated == Lookup(loc[t].memory, "last_updated")
            IN  /\ Len(last_updated) = 1
                /\ last_updated[1].branch = loc[t].branch_name
                /\ \E i \in 1..Len(remote.prs) :
                       remote.prs[i].head = last_updated[1].branch

\* ------------------------------------------------------------------------
\* EventEmitter and the SSE subscribers (src/frontend/api.py)
\* ------------------------------------------------------------------------
\* Threads that call emit: a cycle thread and a request handler.
Emitters == {"e1", "e2"}

\* Callbacks: the _listener of an /api/events subscriber, and a callback
\* that raises.
Subscribers == {"s1"}
Raisers == {"x"}
Callbacks == Subscribers \cup Raisers

MaxEvents == 2

remove_listener_Keep(listeners, cb) == listeners

\* remove_listener: list.remove(cb) removes the first occurrence, if any.
remove_listener(listeners, cb) ==
    IF \E i \in 1..Len(listeners) : listeners[i] = cb
    THEN LET k == CHOOSE i \in 1..Len(listeners) :
                     /\ listeners[i] = cb
                     /\ \A j \in 1..(i - 1) : listeners[j] # cb
         IN  SubSeq(listeners, 1, k - 1) \o SubSeq(listeners, k + 1, Len(listeners))
    ELSE listeners

NoEmit ==
    [pc |-> "idle", ev |-> 0, snapshot |-> <<>>, i |-> 0, dead |-> <<>>,
     throughout |-> {}]

EmitterInit ==
    /\ ServerInit
    /\ remote.manifest = Absent
    /\ backend = "local"
    /\ poll = NoPoll
    /\ fn = [stage |-> "emitter", listeners |-> <<>>, added |-> {},
             emitted |-> <<>>, em |-> [e \in Emitters |-> NoEmit],
             queue |-> [s \in Subscribers |-> <<>>],
             yielded |-> [s \in Subscribers |-> <<>>],
             called |-> [cb \in Callbacks |-> <<>>]]

\* add_listener(cb): events() registers its _listener, or some code a
\* callback that raises; each callback is registered once.
add_listener(cb) ==
    /\ cb \notin fn.added
    /\ fn' = [fn EXCEPT !.listeners = Append(@, cb), !.added = @ \cup {cb}]
    /\ UNCHANGED <<serverVars, poll>>

\* The listeners no longer registered throughout the emits in progress.
Unregistered(em, cb) ==
    [e \in Emitters |-> [em[e] EXCEPT !.throughout = @ \ {cb}]]

\* GeneratorExit in events(): the subscriber unregisters its _listener.
GeneratorExit(s) ==
    /\ s \in fn.added
    /\ \E i \in 1..Len(fn.listeners) : fn.listeners[i] = s
    /\ fn' = [fn EXCEPT !.listeners = remove_listener(@, s),
                        !.em = Unregistered(@, s)]
    /\ UNCHANGED <<serverVars, poll>>

\* emit, first part: snapshot = list(self.listeners) under the lock. The
\* events are numbered in the order of their snapshots; emitted[n] is the
\* thread of event n.
emit_snapshot(e) ==
    /\ fn.em[e].pc = "idle"
    /\ Len(fn.emitted) < MaxEvents
    /\ fn' = [fn EXCEPT
                 !.emitted = Append(@, e),
                 !.em[e] = [pc |-> "calling", ev |-> Len(fn.emitted) + 1,
                            snapshot |-> fn.listeners, i |-> 1,
                            dead |-> <<>>,
                            throughout |-> {fn.listeners[k] :
                                              k \in 1..Len(fn.listeners)}]]
    /\ UNCHANGED <<serverVars, poll>>

\* emit, the loop: cb({'type': ..., 'data': ...}) for the next callback of
\* the snapshot; _listener appends to its queue, a raising callback is dead.
emit_call(e) ==
    /\ fn.em[e].pc = "calling"
    /\ fn.em[e].i <= Len(fn.em[e].snapshot)
    /\ LET cb == fn.em[e].snapshot[fn.em[e].i]
           ev == fn.em[e].ev
       IN  fn' = [fn EXCEPT
                     !.called[cb] = Append(@, ev),
                     !.queue = IF cb \in Subscribers
                               THEN [@ EXCEPT ![cb] = Append(@, ev)]
                               ELSE @,
                     !.em[e].dead = IF cb \in Raisers THEN Append(@, cb)
                                    ELSE @,
                     !.em[e].i = @ + 1]
    /\ UNCHANGED <<serverVars, poll>>

\* emit, last part: for cb in dead: self.remove_listener(cb)
emit_remove_dead(e) ==
    /\ fn.em[e].pc = "calling"
    /\ fn.em[e].i > Len(fn.em[e].snapshot)
    /\ IF fn.em[e].dead = <<>>
       THEN fn' = [fn EXCEPT !.em[e].pc = "done"]
       ELSE LET cb == Head(fn.em[e].dead)
            IN  fn' = [fn EXCEPT
                          !.listeners = remove_listener(@, cb),
                          !.em = [Unregistered(@, cb) EXCEPT
                                     ![e].dead = Tail(fn.em[e].dead)]]
    /\ UNCHANGED <<serverVars, poll>>

\* emit returns.
emit_return(e) ==
    /\ fn.em[e].pc = "done"
    /\ fn' = [fn EXCEPT !.em[e] = NoEmit]
    /\ UNCHANGED <<serverVars, poll>>

\* _generate: yield json.dumps(queue.pop(0)) while the queue is not empty.
generate_yield(s) ==
    /\ s \in fn.added
    /\ fn.queue[s] # <<>>
    /\ \E i \in 1..Len(fn.listeners) : fn.listeners[i] = s
    /\ fn' = [fn EXCEPT !.yielded[s] = Append(@, Head(fn.queue[s])),
                        !.queue[s] = Tail(@)]
    /\ UNCHANGED <<serverVars, poll>>

EmitterNext ==
    \/ \E cb \in Callbacks : add_listener(cb)
    \/ \E s \in Subscribers : GeneratorExit(s)
    \/ \E e \in Emitters : emit_snapshot(e)
    \/ \E e \in Emitters : emit_call(e)
    \/ \E e \in Emitters : emit_remove_dead(e)
    \/ \E e \in Emitters : emit_return(e)
    \/ \E s \in Subscribers : generate_yield(s)

EmitterSpec == EmitterInit /\ [][EmitterNext]_vars

\* How many times callback cb has been called with event ev.
TimesCalled(cb, ev) ==
    Cardinality({k \in 1..Len(fn.called[cb]) : fn.called[cb][k] = ev})

\* What subscriber s has been sent and will be sent, in that order.
Stream(s) == fn.yielded[s] \o fn.queue[s]

\* emit has called every callback of its snapshot: each listener registered
\* throughout has been called exactly once with the event and no callback
\* more than once.
DeliveredOnce ==
    \A e \in Emitters :
        (\/ fn.em[e].pc = "calling" /\ fn.em[e].i > Len(fn.em[e].snapshot)
         \/ fn.em[e].pc = "done") =>
            /\ \A cb \in fn.em[e].throughout : TimesCalled(cb, fn.em[e].ev) = 1
            /\ \A cb \in Callbacks : TimesCalled(cb, fn.em[e].ev) <= 1

\* emit is about to return: the callbacks of its snapshot that raised are
\* unregistered, the listeners registered throughout still are.
DeadUnregistered ==
    \A e \in Emitters :
        fn.em[e].pc = "done" =>
            /\ \A k \in 1..Len(fn.em[e].snapshot) :
                   fn.em[e].snapshot[k] \in Raisers =>
                       \A j \in 1..Len(fn.listeners) :
                           fn.listeners[j] # fn.em[e].snapshot[k]
            /\ \A cb \in fn.em[e].throughout :
                   \E j \in 1..Len(fn.listeners) : fn.listeners[j] = cb

\* The subscriber is sent what its listener was called with, nothing lost and
\* nothing twice.
NoLossNoDuplicate ==
    \A s \in Subscribers :
        /\ Stream(s) = fn.called[s]
        /\ \A i, j \in 1..Len(Stream(s)) :
               i # j => Stream(s)[i] # Stream(s)[j]

\* C30 (as claimed): under any interleaving of add_listener, remove_listener
\* and emit, emit delivers the event exactly once to every listener
\* registered throughout, a listener that raises is unregistered by that emit
\* while the others stay, and every subscriber is sent the events in the
\* order they were emitted, without loss or duplication.
C30_EmissionOrder ==
    fn.stage = "emitter" =>
        /\ DeliveredOnce
        /\ DeadUnregistered
        /\ NoLossNoDuplicate
        /\ \A s \in Subscribers :
               \A i, j \in 1..Len(Stream(s)) :
                   i < j => Stream(s)[i] < Stream(s)[j]

\* C30 (amended): delivery exactly once, the unregistering of raising
\* listeners, no loss and no duplication are as claimed; a subscriber is
\* sent the events of one emitting thread in the order that thread emitted
\* them, while the events of emits that run concurrently in two threads may
\* reach it in either order.
C30_OrderPerThread ==
    fn.stage = "emitter" =>
        /\ DeliveredOnce
        /\ DeadUnregistered
        /\ NoLossNoDuplicate
        /\ \A s \in Subscribers :
               \A i, j \in 1..Len(Stream(s)) :
                   i < j /\ fn.emitted[Stream(s)[i]] = fn.emitted[Stream(s)[j]]
                       => Stream(s)[i] < Stream(s)[j]

\* Two threads have emitted concurrently: the subscriber has been sent the
\* second event before the first; the emit that is returning has called the
\* raising callback and unregistered it, the subscriber is still registered.
C30_Witness ==
    /\ fn.stage = "emitter"
    /\ fn.yielded["s1"] = <<2, 1>>
    /\ \E e \in Emitters :
           /\ fn.em[e].pc = "done"
           /\ fn.em[e].snapshot = <<"x", "s1">>
           /\ fn.em[e].throughout = {"s1"}

====
